---- MODULE Spec2Model ----
(***************************************************************************)
(* Move-selection engine of the endgame trainer: selectComputerMove, the   *)
(* registry of specialized policies (KR_KRP, KP_KP, KRP_KR, KR_KP, KBP_KB) *)
(* and the default policy.                                                 *)
(*                                                                         *)
(* One invocation of selectComputerMove is a run of the state machine: the *)
(* input (endgameKey, tbData.moves) is fixed by Init, and every step of    *)
(* the selected policy is one action.  The rules engine (chess.js) is not  *)
(* part of the repository: what analyzePosition answers for a candidate    *)
(* (a feature vector, null, or an exception) is an input of the step that  *)
(* reads it, drawn from every value the engine could produce.              *)
(***************************************************************************)
EXTENDS Integers, Sequences, FiniteSets, TLC

VARIABLES
    key,        \* input.endgameKey
    tbData,     \* input.tbData: ok is FALSE when tbData or tbData.moves is missing
    pc,         \* position inside selectComputerMove / the policy
    cand,       \* the policy's decorated candidates
    target,     \* the policy's target class
    C,          \* the policy's working set
    stage,      \* the last filter stage applied to C: name, set before, survivors, set after
    phase,      \* KR_KRP: the phase of C[0] read after the phase preference
    gone,       \* KBP_KB / KRP_KR: candidates whose pawnGone feature has been read as true
    polRet,     \* what policy(input) returned: <<>> is null, <<m>> the move m
    threw,      \* whether policy(input) threw
    usedDefault,\* whether selectComputerMove called MovePolicies.defaultPolicy itself
    escaped,    \* whether an exception left selectComputerMove
    result,     \* the return value of selectComputerMove: <<>> is null, <<m>> the move m
    oracle,     \* the rules engine on the position: free, or its answer for every candidate
    run,        \* 0: a single invocation; 1, 2, 3: the number of the invocation in a series
    firstCall,  \* the list and the result of the first invocation of a series
    probe,      \* analyzePosition at work: the simulated position and its probing loops
    scan,       \* analyzePosition at work: the loop over the opponent's captures
    app,        \* the trainer's globals: gameId, gameActive, isUserTurn, currentTbData, streak, ...
    chess,      \* the trainer's chess object: the game it was loaded for and the moves played
    tasks,      \* the suspended async functions of the trainer, each at its await
    trace,      \* history: the streak changes of the game, whether a guess was made with no data
    sw          \* the service worker's cache, the server, the network and the loader's session

vars == <<key, tbData, pc, cand, target, C, stage, phase, gone, polRet, threw, usedDefault, escaped,
          result, oracle, run, firstCall, probe, scan,
          app, chess, tasks, trace, sw>>

\* ------------------------------------------------------------------ bounds
MaxMoves == 3

\* --------------------------------------------------------- program constants
GAP_BREAK == 12

\* ------------------------------------------------------------ plain values
Null == <<>>                  \* JavaScript null / undefined where a move or a number is expected
Undefined == <<"undefined">>  \* a missing string (a string is the sequence of its characters)
NoStage == [name |-> "none", before |-> <<>>, sat |-> {}, after |-> <<>>]
Free == [fixed |-> FALSE, answer |-> <<>>]   \* the rules engine may answer anything
NoCall == [moves |-> <<>>, result |-> <<>>]
NoProbe == [at |-> "idle", i |-> 0, sim |-> <<>>, loops |-> <<>>, outer |-> 0, inner |-> 0,
            applied |-> 0, undone |-> 0]

NoFlags == [safePawnCaptureExists |-> FALSE, safeKingCaptureExists |-> FALSE,
            safeRookCaptureExists |-> FALSE, bishopHang |-> FALSE, bishopLost |-> FALSE,
            bishopTradeOffered |-> FALSE]
NoScan == [at |-> "idle", moves |-> <<>>, i |-> 0, flags |-> NoFlags]

\* the trainer before its first game
NoFen == [g |-> 0, hist |-> <<>>]
NoApp == [gameId |-> 0, gameActive |-> FALSE, isUserTurn |-> FALSE, analysisMode |-> FALSE,
          streakInvalidated |-> FALSE, guessLock |-> FALSE, streak |-> 0, status |-> "",
          currentTbData |-> <<>>, currentFen |-> NoFen, initialFen |-> NoFen, tbCache |-> {},
          outcome |-> 0, btnUndo |-> FALSE, btnGuess |-> FALSE]
NoTrace == [changes |-> 0, guessedThinking |-> FALSE]
NoAnswer == [asked |-> FALSE, hit |-> FALSE, online |-> FALSE, from |-> "", body |-> 0]
NoWorker == [cache |-> {}, server |-> 0, online |-> FALSE, MANIFEST |-> 0, mem |-> {},
             manifest |-> NoAnswer, data |-> NoAnswer]

Abs(n) == IF n < 0 THEN -n ELSE n
SetOf(s) == {s[i] : i \in 1..Len(s)}

\* ----------------------------------------------------------------- strings
\* A string is the sequence of its characters, so that toLowerCase, includes
\* and localeCompare are computed and not assumed.
LowerChar(ch) ==
    CASE ch = "W" -> "w" [] ch = "I" -> "i" [] ch = "N" -> "n"
      [] ch = "L" -> "l" [] ch = "O" -> "o" [] ch = "S" -> "s"
      [] ch = "D" -> "d" [] ch = "R" -> "r" [] ch = "A" -> "a"
      [] ch = "E" -> "e" [] ch = "U" -> "u" [] ch = "K" -> "k"
      [] OTHER -> ch

toLowerCase(s) == [i \in 1..Len(s) |-> LowerChar(s[i])]

includes(s, pat) ==
    \E i \in 1..(Len(s) - Len(pat) + 1) : SubSeq(s, i, i + Len(pat) - 1) = pat

S_loss == <<"l", "o", "s", "s">>
S_draw == <<"d", "r", "a", "w">>
S_win == <<"w", "i", "n">>

\* Collation order of the characters a move identifier is made of: digits
\* before letters, letters alphabetically.
CharOrder == <<"1", "2", "3", "4", "5", "6", "7", "8",
               "a", "b", "c", "d", "e", "f", "g", "h", "n", "q", "r">>
CharRank(ch) == CHOOSE i \in 1..Len(CharOrder) : CharOrder[i] = ch

RECURSIVE localeCompare(_, _)
localeCompare(a, b) ==
    IF a = <<>> /\ b = <<>> THEN 0
    ELSE IF a = <<>> THEN -1
    ELSE IF b = <<>> THEN 1
    ELSE IF CharRank(Head(a)) < CharRank(Head(b)) THEN -1
    ELSE IF CharRank(Head(a)) > CharRank(Head(b)) THEN 1
    ELSE localeCompare(Tail(a), Tail(b))

\* ------------------------------------------------- outcome classification
\* policy_*.js getMoverResult: the oracle's label describes the side to move
\* after the move.
getMoverResult(category) ==
    LET cat == toLowerCase(IF category = Undefined THEN <<>> ELSE category)
    IN  IF includes(cat, S_loss) THEN "WIN"
        ELSE IF includes(cat, S_draw) THEN "DRAW"
        ELSE IF includes(cat, S_win) THEN "LOSS"
        ELSE "DRAW"

\* trivial_endgames.js tbMoveCategoryToMoverWdl: -2 mover wins, 0 draw, 2 mover loses.
tbMoveCategoryToMoverWdl(category) ==
    LET c == toLowerCase(IF category = Undefined THEN <<>> ELSE category)
    IN  IF includes(c, S_loss) THEN -2
        ELSE IF includes(c, S_draw) THEN 0
        ELSE IF includes(c, S_win) THEN 2
        ELSE 0

\* ------------------------------------------------------------- the input
\* Move identifiers (uci) of the position; a candidate list lists each at most once.
UciPool == << <<"a", "2", "a", "1", "q">>, <<"a", "2", "a", "1", "r">>,
              <<"b", "3", "a", "2">>, <<"b", "3", "b", "2">>, <<"b", "3", "c", "2">> >>

SanQuiet == <<"K", "d", "5">>
SanCapture == <<"K", "x", "d", "5">>

Move(cat, d, mate, san) == [category |-> cat, dtm |-> d, checkmate |-> mate, san |-> san]

\* Every class and both kinds of draw, one distance each.
ClassMoves ==
    { Move(S_loss, <<-1>>, FALSE, SanQuiet), Move(S_win, <<13>>, FALSE, SanQuiet),
      Move(S_draw, Null, FALSE, SanQuiet), Move(S_draw, Null, FALSE, SanCapture) }

\* Winning moves: the oracle gives a negative dtm (the opponent is mated), or none.
WinMoves ==
    { Move(S_loss, d, mate, SanQuiet) :
        d \in {Null, <<-1>>, <<-2>>}, mate \in BOOLEAN } \ {Move(S_loss, <<-1>>, TRUE, SanQuiet)}

\* Losing moves, with distances around the anti-collapse gap.
LossMoves ==
    { Move(S_win, d, FALSE, SanQuiet) :
        d \in {Null, <<1>>, <<GAP_BREAK + 1>>, <<2 * GAP_BREAK>>, <<2 * GAP_BREAK + 1>>} }

\* The labels the classification is tried on: the three it names in every
\* case, the oracle's qualified labels, unrelated words, the empty and the missing label.
Labels ==
    { <<"w", "i", "n">>,
      <<"l", "o", "s", "s">>,
      <<"d", "r", "a", "w">>,
      <<"W", "I", "N">>,
      <<"L", "o", "s", "s">>,
      <<"D", "r", "a", "w">>,
      <<"u", "n", "k", "n", "o", "w", "n">>,
      <<"c", "u", "r", "s", "e", "d", "-", "w", "i", "n">>,
      <<"b", "l", "e", "s", "s", "e", "d", "-", "l", "o", "s", "s">>,
      <<"m", "a", "y", "b", "e", "-", "w", "i", "n">>,
      <<"m", "a", "y", "b", "e", "-", "l", "o", "s", "s">>,
      <<"w", "d", "l">>,
      <<"d", "r", "a", "w", "n">>,
      <<>>, Undefined }

LabelMoves == { Move(l, Null, FALSE, SanQuiet) : l \in Labels }

\* The identifiers of a list of n moves, in ascending or in descending order.
UciOrders(n) == { [i \in 1..n |-> UciPool[i]], [i \in 1..n |-> UciPool[n + 1 - i]] }

Lists(V, n) ==
    { [i \in 1..n |-> [uci |-> us[i], category |-> vs[i].category, dtm |-> vs[i].dtm,
                       checkmate |-> vs[i].checkmate, san |-> vs[i].san]] :
        us \in UciOrders(n), vs \in [1..n -> V] }

MoveLists ==
    Lists(LabelMoves, 1) \cup
    UNION { Lists(ClassMoves, n) \cup Lists(WinMoves, n) \cup Lists(LossMoves, n) :
              n \in 0..MaxMoves }

Inputs == {[ok |-> TRUE, moves |-> ms] : ms \in MoveLists} \cup {[ok |-> FALSE, moves |-> <<>>]}

Registered == {"KR_KRP", "KP_KP", "KRP_KR", "KR_KP", "KBP_KB"}
Keys == Registered \cup {"KP_K"}

\* ------------------------------------------------------- Array.prototype.sort
\* A stable insertion sort; cmp[a, b] is the comparator's result for (a, b).
RECURSIVE insertSorted(_, _, _)
insertSorted(x, s, cmp) ==
    IF s = <<>> THEN <<x>>
    ELSE IF cmp[s[Len(s)], x] > 0
         THEN Append(insertSorted(x, SubSeq(s, 1, Len(s) - 1), cmp), s[Len(s)])
         ELSE Append(s, x)

RECURSIVE sort(_, _)
sort(s, cmp) ==
    IF s = <<>> THEN <<>>
    ELSE insertSorted(s[Len(s)], sort(SubSeq(s, 1, Len(s) - 1), cmp), cmp)

\* ------------------------------------------------------ candidate decoration
\* dtm: (m.checkmate || m.dtm === 0) ? 0 : (Number.isFinite(m.dtm) ? Math.abs(m.dtm) : null)
kpKpDtm(m) ==
    IF m.checkmate \/ m.dtm = <<0>> THEN <<0>>
    ELSE IF m.dtm # Null THEN <<Abs(m.dtm[1])>> ELSE Null

krKrpDtm(m) ==
    IF m.checkmate \/ m.dtm = <<0>> THEN <<0>>
    ELSE IF m.dtm # Null THEN <<Abs(m.dtm[1])>> ELSE Null

krKpDtm(m) ==
    IF m.checkmate \/ m.dtm = <<0>> THEN <<0>>
    ELSE IF m.dtm # Null THEN <<Abs(m.dtm[1])>> ELSE Null

\* dtm: Number.isFinite(m.dtm) ? Math.abs(m.dtm) : null
kbpKbDtm(m) == IF m.dtm # Null THEN <<Abs(m.dtm[1])>> ELSE Null

krpKrDtm(m) == IF m.dtm # Null THEN <<Abs(m.dtm[1])>> ELSE Null

candidateDtm(k, m) ==
    CASE k = "KP_KP" -> kpKpDtm(m)
      [] k = "KR_KRP" -> krKrpDtm(m)
      [] k = "KR_KP" -> krKpDtm(m)
      [] k = "KBP_KB" -> kbpKbDtm(m)
      [] k = "KRP_KR" -> krpKrDtm(m)

\* candidates = tbData.moves.map(...); original is the index of the move in tbData.moves.
candidates(k, ms) ==
    [i \in 1..Len(ms) |->
        [original |-> i, uci |-> ms[i].uci,
         outcome |-> getMoverResult(ms[i].category), dtm |-> candidateDtm(k, ms[i])]]

\* ------------------------------------------------------------ soundness gate
\* Faulty variant: a gate that takes a draw before it looks for a win.
selectTargetDrawFirst(cs) ==
    IF \E i \in 1..Len(cs) : cs[i].outcome = "DRAW" THEN "DRAW"
    ELSE IF \E i \in 1..Len(cs) : cs[i].outcome = "WIN" THEN "WIN"
    ELSE "LOSS"

selectTarget(cs) ==
    IF \E i \in 1..Len(cs) : cs[i].outcome = "WIN" THEN "WIN"
    ELSE IF \E i \in 1..Len(cs) : cs[i].outcome = "DRAW" THEN "DRAW"
    ELSE "LOSS"

\* Faulty variant: the working set is not restricted to the target class.
targetSetUnrestricted(cs, t) == cs

targetSet(cs, t) == SelectSeq(cs, LAMBDA c : c.outcome = t)

\* ------------------------------------------------------- WIN: shortest DTM
\* Faulty variant: equal distances are left in the order of the list.
winCompareNoTieBreak(a, b) ==
    IF a.dtm # b.dtm
    THEN IF a.dtm = Null THEN 1
         ELSE IF b.dtm = Null THEN -1
         ELSE a.dtm[1] - b.dtm[1]
    ELSE 0

\* da = a.dtm !== null ? a.dtm : Infinity; da !== db ? da - db : a.uci.localeCompare(b.uci)
winCompare(a, b) ==
    IF a.dtm # b.dtm
    THEN IF a.dtm = Null THEN 1
         ELSE IF b.dtm = Null THEN -1
         ELSE a.dtm[1] - b.dtm[1]
    ELSE localeCompare(a.uci, b.uci)

winSort(cs) == sort(cs, [a \in SetOf(cs), b \in SetOf(cs) |-> winCompare(a, b)])

\* ------------------------------------------- LOSS: anti-collapse filter on DTM
knownDtms(cs) ==
    LET known == SelectSeq(cs, LAMBDA c : c.dtm # Null)
    IN  [i \in 1..Len(known) |-> known[i].dtm[1]]

\* dtmValues: the known distances, sorted descending
dtmValues(cs) ==
    LET ds == knownDtms(cs)
    IN  sort(ds, [a \in SetOf(ds), b \in SetOf(ds) |-> b - a])

\* Faulty variant: only a gap greater than GAP_BREAK marks the boundary.
lossThresholdStrict(dv) ==
    LET gaps == {i \in 1..(Len(dv) - 1) : dv[i] - dv[i + 1] > GAP_BREAK}
    IN  IF gaps = {} THEN dv[1]
        ELSE dv[CHOOSE i \in gaps : \A j \in gaps : i <= j]

\* threshold = dtmValues[0], or dtmValues[i] at the first i with a gap >= GAP_BREAK
lossThreshold(dv) ==
    LET gaps == {i \in 1..(Len(dv) - 1) : dv[i] - dv[i + 1] >= GAP_BREAK}
    IN  IF gaps = {} THEN dv[1]
        ELSE dv[CHOOSE i \in gaps : \A j \in gaps : i <= j]

\* Faulty variant: candidates without a distance pass the distance filter.
lossFilterKeepMissing(cs) ==
    LET dv == dtmValues(cs)
    IN  IF Len(dv) > 0
        THEN SelectSeq(cs, LAMBDA c : c.dtm = Null \/ c.dtm[1] >= lossThreshold(dv))
        ELSE cs

lossFilter(cs) ==
    LET dv == dtmValues(cs)
    IN  IF Len(dv) > 0
        THEN LET threshold == lossThreshold(dv)
                 filtered == SelectSeq(cs, LAMBDA c : c.dtm # Null /\ c.dtm[1] >= threshold)
             IN  IF Len(filtered) > 0 THEN filtered ELSE cs
        ELSE cs

\* -------------------------------------------------------------- default policy
isNonCapture(m) == m.san # Undefined /\ m.san # <<>> /\ ~includes(m.san, <<"x">>)

\* Faulty variant: the move is rebuilt with a promotion piece appended to its identifier.
defaultPolicyRebuilt(tb) ==
    IF ~tb.ok \/ Len(tb.moves) = 0 THEN Null
    ELSE <<[tb.moves[1] EXCEPT !.uci = Append(@, "q")]>>

\* Faulty variant: the first listed move, whatever it captures.
defaultPolicyFirstListed(tb) ==
    IF ~tb.ok \/ Len(tb.moves) = 0 THEN Null ELSE <<tb.moves[1]>>

defaultPolicy(tb) ==
    IF ~tb.ok \/ Len(tb.moves) = 0 THEN Null
    ELSE LET bestMove == tb.moves[1]
             bestMoverWdl == tbMoveCategoryToMoverWdl(bestMove.category)
         IN  IF bestMoverWdl = 0
             THEN LET drawMoves == SelectSeq(tb.moves,
                                      LAMBDA m : tbMoveCategoryToMoverWdl(m.category) = 0)
                      nonCapture == SelectSeq(drawMoves, isNonCapture)
                  IN  IF nonCapture # <<>> THEN <<nonCapture[1]>> ELSE <<bestMove>>
             ELSE <<bestMove>>

\* Faulty variant: the predicate is applied even when no candidate satisfies it.
keepOnly(cs, sat) == SelectSeq(cs, LAMBDA c : c.uci \in sat)

\* "if at least one remaining candidate satisfies the predicate, discard the others":
\* if (C.some(p)) C = C.filter(p), sat being the identifiers of the candidates satisfying p
keepIfAny(cs, sat) ==
    IF \E i \in 1..Len(cs) : cs[i].uci \in sat
    THEN SelectSeq(cs, LAMBDA c : c.uci \in sat)
    ELSE cs

UcisOf(cs) == {cs[i].uci : i \in 1..Len(cs)}

\* ------------------------------------------------- the ordered filter stages
\* A stage is named after the feature it reads; phaseC / phaseB are the two
\* steps of the phase preference.  xxxNext(st, applied) is the stage that the
\* policy executes after stage st (applied: some candidate satisfied st).
\* the KP_KP cascade without its phase preference
kpKpNextNoPhase(st, applied) ==
    CASE st = "whiteCanCaptureBPNow" ->
            IF applied THEN "Useful" ELSE "whitePawnCanCaptureBPNow"
      [] st = "whitePawnCanCaptureBPNow" -> "bpFreeCaptureExists"
      [] st = "bpFreeCaptureExists" -> "whiteKingCanCaptureBPNow"
      [] st = "whiteKingCanCaptureBPNow" -> "Useful"
      [] st = "Useful" -> "rank"

kpKpNext(st, applied) ==
    CASE st = "whiteCanCaptureBPNow" ->
            IF applied THEN "Useful" ELSE "whitePawnCanCaptureBPNow"
      [] st = "whitePawnCanCaptureBPNow" -> "bpFreeCaptureExists"
      [] st = "bpFreeCaptureExists" -> "whiteKingCanCaptureBPNow"
      [] st = "whiteKingCanCaptureBPNow" -> "Useful"
      [] st = "Useful" -> "phaseC"
      [] st = "phaseC" -> IF applied THEN "rank" ELSE "phaseB"
      [] st = "phaseB" -> "rank"

\* the KR_KRP cascade without its rook-trade stage
krKrpNextNoTrade(st, applied) ==
    CASE st = "R_hang" -> "PawnKingTakeSafe"
      [] st = "PawnKingTakeSafe" -> "PawnTakeSafe"
      [] st = "PawnTakeSafe" -> "Useful"
      [] st = "Useful" -> "phaseC"
      [] st = "phaseC" -> IF applied THEN "rank" ELSE "phaseB"
      [] st = "phaseB" -> "rank"

krKrpNext(st, applied) ==
    CASE st = "R_hang" -> "PawnKingTakeSafe"
      [] st = "PawnKingTakeSafe" -> "PawnTakeSafe"
      [] st = "PawnTakeSafe" -> "Trade"
      [] st = "Trade" -> "Useful"
      [] st = "Useful" -> "phaseC"
      [] st = "phaseC" -> IF applied THEN "rank" ELSE "phaseB"
      [] st = "phaseB" -> "rank"

kbpKbNext(t, st, applied) ==
    CASE st = "bishopLost" -> "pawnPromotesNow"
      [] st = "pawnPromotesNow" -> "bishopTradeOffered"
      [] st = "bishopTradeOffered" -> IF t = "DRAW" THEN "pawnGone" ELSE "Useful"
      [] st = "pawnGone" -> "Useful"
      [] st = "Useful" -> "rank"

krKpNext(st, applied) ==
    CASE st = "promoted" -> "safePawnCaptureExists"
      [] st = "safePawnCaptureExists" ->
            IF applied THEN "Useful" ELSE "safeRookCaptureExists"
      [] st = "safeRookCaptureExists" -> "safeKingCaptureExists"
      [] st = "safeKingCaptureExists" -> "Useful"
      [] st = "Useful" -> "pawnPoisoned"
      [] st = "pawnPoisoned" -> "kingThreatensRook"
      [] st = "kingThreatensRook" -> "rank"

krpKrNext(t, st, applied) ==
    CASE st = "R_hang" -> "whitePawnPromotesNow"
      [] st = "whitePawnPromotesNow" -> "Trade"
      [] st = "Trade" -> "Useful"
      [] st = "Useful" -> IF t = "DRAW" THEN "keepPawn" ELSE "rank"
      [] st = "keepPawn" -> "rank"

firstStage(k) ==
    CASE k = "KP_KP" -> "whiteCanCaptureBPNow"
      [] k = "KR_KRP" -> "R_hang"
      [] k = "KBP_KB" -> "bishopLost"
      [] k = "KR_KP" -> "promoted"
      [] k = "KRP_KR" -> "R_hang"

nextStage(k, t, st, applied) ==
    CASE k = "KP_KP" -> kpKpNext(st, applied)
      [] k = "KR_KRP" -> krKrpNext(st, applied)
      [] k = "KBP_KB" -> kbpKbNext(t, st, applied)
      [] k = "KR_KP" -> krKpNext(st, applied)
      [] k = "KRP_KR" -> krpKrNext(t, st, applied)

ControlPoints == {"start", "policy", "win", "loss", "analyze", "rank", "check", "done"}

\* ---------------------------------------------------------- final ranking
\* prefer(feat): true sorts before false
prefer(a, b, feat) ==
    IF a.features[feat] = b.features[feat] THEN 0
    ELSE IF a.features[feat] THEN -1 ELSE 1

\* the first comparator of the list that distinguishes a and b decides
firstOf(a, b, feats) ==
    LET hit == {i \in 1..Len(feats) : prefer(a, b, feats[i]) # 0}
    IN  IF hit = {} THEN 0
        ELSE prefer(a, b, feats[CHOOSE i \in hit : \A j \in hit : i <= j])

\* the KP_KP comparator without its opposition criterion
kpKpCompareNoOpposition(t, a, b) ==
    LET criteria ==
            IF t = "LOSS"
            THEN <<"BK_attacks_WP", "BKInFrontOfBP", "kingCloserToWP", "kingCloserToBP">>
            ELSE <<"BK_attacks_WP", "BKInFrontOfBP", "kingCloserToBP", "kingCloserToWP">>
        diff == firstOf(a, b, criteria)
    IN  IF diff # 0 THEN diff
        ELSE IF a.features.bpRank # b.features.bpRank
             THEN a.features.bpRank - b.features.bpRank
        ELSE localeCompare(a.uci, b.uci)

kpKpCompare(t, a, b) ==
    LET criteria ==
            IF t = "LOSS"
            THEN <<"oppositionGoodForBlack", "BK_attacks_WP", "BKInFrontOfBP",
                   "kingCloserToWP", "kingCloserToBP">>
            ELSE <<"oppositionGoodForBlack", "BK_attacks_WP", "BKInFrontOfBP",
                   "kingCloserToBP", "kingCloserToWP">>
        diff == firstOf(a, b, criteria)
    IN  IF diff # 0 THEN diff
        ELSE IF a.features.bpRank # b.features.bpRank
             THEN a.features.bpRank - b.features.bpRank
        ELSE localeCompare(a.uci, b.uci)

\* Faulty variant: a candidate that has a distance is ranked first.
krKrpCompareByDistance(t, ph, a, b) ==
    IF (a.dtm = Null) # (b.dtm = Null) THEN (IF a.dtm # Null THEN -1 ELSE 1)
    ELSE localeCompare(a.uci, b.uci)

krKrpCompare(t, ph, a, b) ==
    LET first == IF t = "LOSS" THEN <<"SafeCheck">> ELSE <<>>
        byPhase ==
            IF ph = "A" THEN <<"CutoffOK", "PawnDef", "SafeCheck", "Behind">>
            ELSE IF ph = "B" THEN <<"Behind", "PawnDef", "CutoffOK", "SafeCheck">>
            ELSE <<"PawnDef", "Behind", "CutoffOK", "SafeCheck">>
        diff == firstOf(a, b, first \o byPhase)
    IN  IF diff # 0 THEN diff ELSE localeCompare(a.uci, b.uci)

phaseRank(ph) ==
    IF ph = "C" THEN 3 ELSE IF ph = "B" THEN 2 ELSE IF ph = "A" THEN 1 ELSE 0

numDiff(x, y) == IF x # y THEN x - y ELSE 0

firstNonZero(ds) ==
    LET hit == {i \in 1..Len(ds) : ds[i] # 0}
    IN  IF hit = {} THEN 0 ELSE ds[CHOOSE i \in hit : \A j \in hit : i <= j]

kbpKbCompare(t, a, b) ==
    LET af == a.features
        bf == b.features
        checks == IF t = "LOSS" THEN prefer(a, b, "SafeCheck") ELSE 0
        fortress ==
            firstNonZero(<<
                IF af.BKOnPromo # bf.BKOnPromo THEN (IF af.BKOnPromo THEN -1 ELSE 1) ELSE 0,
                numDiff(af.BKDistToPromo, bf.BKDistToPromo),
                firstOf(a, b, <<"SafeCheck", "threatensPawn", "attacksWhiteBishop">>) >>)
        general ==
            firstNonZero(<<
                IF af.phase = "C"
                THEN firstOf(a, b, <<"BBControlsPromo", "BKOnPromo", "BBControlsBlock",
                                     "SafeCheck", "threatensPawn">>)
                ELSE firstOf(a, b, <<"BKOnBlock", "BBControlsBlock", "threatensPawn",
                                     "SafeCheck", "attacksWhiteBishop">>),
                numDiff(af.BKDistToBlock, bf.BKDistToBlock),
                numDiff(af.BKDistToPromo, bf.BKDistToPromo) >>)
        withPawn ==
            IF phaseRank(af.phase) # phaseRank(bf.phase)
            THEN phaseRank(bf.phase) - phaseRank(af.phase)
            ELSE firstNonZero(<<
                    IF af.wrongBishopForRookPawn /\ bf.wrongBishopForRookPawn
                    THEN fortress ELSE general,
                    numDiff(bf.whiteMovesCount, af.whiteMovesCount) >>)
        pawnGone == firstOf(a, b, <<"SafeCheck", "attacksWhiteBishop">>)
    IN  firstNonZero(<<
            checks,
            IF ~af.pawnGone /\ ~bf.pawnGone THEN withPawn ELSE pawnGone,
            localeCompare(a.uci, b.uci) >>)

\* pawnRank is <<>> (null) when the pawn is gone
krKpCompare(a, b) ==
    LET af == a.features
        bf == b.features
    IN  firstNonZero(<<
            phaseRank(bf.phase) - phaseRank(af.phase),
            prefer(a, b, "BKInFrontOfPawn"),
            prefer(a, b, "pawnDefByKing"),
            IF af.isRookPawn /\ bf.isRookPawn
            THEN numDiff(af.BKDistToPromo, bf.BKDistToPromo) ELSE 0,
            numDiff(af.whiteCheckingMovesCount, bf.whiteCheckingMovesCount),
            IF af.pawnRank # Null /\ bf.pawnRank # Null
            THEN numDiff(af.pawnRank[1], bf.pawnRank[1]) ELSE 0,
            localeCompare(a.uci, b.uci) >>)

krpKrCompare(t, a, b) ==
    LET af == a.features
        bf == b.features
        checks == IF t = "LOSS" THEN prefer(a, b, "SafeCheck") ELSE 0
        byPhase ==
            IF af.phase = "C"
            THEN firstOf(a, b, <<"rookAttacksPromo", "rookAttacksBlock", "SafeCheck",
                                 "safeAttackWR", "rookBehindPawn", "BKInFrontOfPawn">>)
            ELSE IF af.phase = "B"
            THEN firstOf(a, b, <<"rookBehindPawn", "rookOnShortSide", "SafeCheck",
                                 "safeAttackWR", "rookAttacksPawn", "BKInFrontOfPawn">>)
            ELSE firstOf(a, b, <<"SafeCheck", "safeAttackWR", "rookAttacksPawn",
                                 "rookOnShortSide", "BKInFrontOfPawn">>)
        withPawn ==
            IF phaseRank(af.phase) # phaseRank(bf.phase)
            THEN phaseRank(bf.phase) - phaseRank(af.phase)
            ELSE firstNonZero(<<
                    byPhase,
                    numDiff(af.BKDistToPromo, bf.BKDistToPromo),
                    numDiff(af.BKDistToBlock, bf.BKDistToBlock),
                    numDiff(bf.WKDistToPawn, af.WKDistToPawn),
                    numDiff(bf.WKDistToBlock, af.WKDistToBlock) >>)
        pawnGone == firstOf(a, b, <<"SafeCheck", "safeAttackWR">>)
    IN  firstNonZero(<<
            checks,
            IF ~af.pawnGone /\ ~bf.pawnGone THEN withPawn ELSE pawnGone,
            localeCompare(a.uci, b.uci) >>)

\* ------------------------------------------ feature vectors read by the ranking
\* The comparator's inputs come from the rules engine; each candidate's
\* vector is drawn from a base vector and a few vectors that differ from it.
kpKpRankFeatures ==
    [oppositionGoodForBlack : BOOLEAN, BK_attacks_WP : {FALSE}, BKInFrontOfBP : {FALSE},
     kingCloserToWP : {FALSE}, kingCloserToBP : BOOLEAN, bpRank : {3}]
    \cup
    [oppositionGoodForBlack : {FALSE}, BK_attacks_WP : {FALSE}, BKInFrontOfBP : {FALSE},
     kingCloserToWP : {FALSE}, kingCloserToBP : {FALSE}, bpRank : {4}]

krKrpRankFeatures ==
    [SafeCheck : BOOLEAN, CutoffOK : {FALSE}, PawnDef : BOOLEAN, Behind : {FALSE}]

kbpKbBase ==
    [SafeCheck |-> FALSE, pawnGone |-> FALSE, phase |-> "B", wrongBishopForRookPawn |-> FALSE,
     BKOnPromo |-> FALSE, BKDistToPromo |-> 2, threatensPawn |-> FALSE,
     attacksWhiteBishop |-> FALSE, BBControlsPromo |-> FALSE, BBControlsBlock |-> FALSE,
     BKOnBlock |-> FALSE, BKDistToBlock |-> 2, whiteMovesCount |-> 5]

kbpKbRankFeatures ==
    { kbpKbBase,
      [kbpKbBase EXCEPT !.SafeCheck = TRUE],
      [kbpKbBase EXCEPT !.phase = "C", !.BKDistToPromo = 1],
      [kbpKbBase EXCEPT !.pawnGone = TRUE, !.phase = "NOPAWN"],
      [kbpKbBase EXCEPT !.pawnGone = TRUE, !.phase = "NOPAWN", !.SafeCheck = TRUE] }

krKpBase ==
    [phase |-> "B", BKInFrontOfPawn |-> FALSE, pawnDefByKing |-> FALSE, isRookPawn |-> FALSE,
     BKDistToPromo |-> 3, whiteCheckingMovesCount |-> 2, pawnRank |-> <<3>>]

krKpRankFeatures ==
    { krKpBase,
      [krKpBase EXCEPT !.phase = "C", !.pawnRank = <<2>>],
      [krKpBase EXCEPT !.pawnDefByKing = TRUE],
      [krKpBase EXCEPT !.whiteCheckingMovesCount = 1] }

krpKrBase ==
    [SafeCheck |-> FALSE, pawnGone |-> FALSE, phase |-> "B", rookAttacksPromo |-> FALSE,
     rookAttacksBlock |-> FALSE, safeAttackWR |-> FALSE, rookBehindPawn |-> FALSE,
     BKInFrontOfPawn |-> FALSE, rookOnShortSide |-> FALSE, rookAttacksPawn |-> FALSE,
     BKDistToPromo |-> 2, BKDistToBlock |-> 2, WKDistToPawn |-> 1, WKDistToBlock |-> 1]

krpKrRankFeatures ==
    { krpKrBase,
      [krpKrBase EXCEPT !.SafeCheck = TRUE],
      [krpKrBase EXCEPT !.rookBehindPawn = TRUE],
      [krpKrBase EXCEPT !.pawnGone = TRUE, !.phase = "NOPAWN"],
      [krpKrBase EXCEPT !.pawnGone = TRUE, !.phase = "NOPAWN", !.safeAttackWR = TRUE] }

\* the candidates of cs with the feature vectors f[uci]
withFeatures(cs, f) ==
    [i \in 1..Len(cs) |->
        [original |-> cs[i].original, uci |-> cs[i].uci, outcome |-> cs[i].outcome,
         dtm |-> cs[i].dtm, features |-> f[cs[i].uci]]]

withoutFeatures(cs) ==
    [i \in 1..Len(cs) |->
        [original |-> cs[i].original, uci |-> cs[i].uci, outcome |-> cs[i].outcome,
         dtm |-> cs[i].dtm]]

\* --------------------------------------------------------- selectComputerMove
\* try { selectedMove = policy(input) } catch (e) { ... }, the fallback when the
\* policy gave nothing, and the membership check with its fallback.
\* Faulty variant: no try/catch around the policy and no fallback.
afterPolicyNoCatch(tb, ret, thr) ==
    [escaped |-> thr, usedDefault |-> FALSE, move |-> IF thr THEN Null ELSE ret]

\* Faulty variant: the selector keeps what it returned in an earlier call and
\* avoids returning it again.
afterPolicyRemembering(tb, ret, thr) ==
    IF ~thr /\ ret # Null /\ ret = firstCall.result /\ Len(tb.moves) > 1
    THEN [escaped |-> FALSE, usedDefault |-> FALSE,
          move |-> <<CHOOSE m \in SetOf(tb.moves) : <<m>> # ret>>]
    ELSE [escaped |-> FALSE, usedDefault |-> thr \/ ret = Null,
          move |-> IF thr \/ ret = Null THEN defaultPolicy(tb) ELSE ret]

\* Faulty variant: the returned move is not checked against the list.
afterPolicyUnchecked(tb, ret, thr) ==
    [escaped |-> FALSE, usedDefault |-> thr \/ ret = Null,
     move |-> IF thr \/ ret = Null THEN defaultPolicy(tb) ELSE ret]

afterPolicy(tb, ret, thr) ==
    LET selectedMove == IF thr THEN Null ELSE ret
        fallback == IF selectedMove = Null THEN defaultPolicy(tb) ELSE selectedMove
        isValid == fallback # Null
                   /\ \E i \in 1..Len(tb.moves) : tb.moves[i].uci = fallback[1].uci
    IN  [escaped |-> FALSE,
         usedDefault |-> (selectedMove = Null \/ ~isValid),
         move |-> IF isValid THEN fallback ELSE defaultPolicy(tb)]

Init ==
    /\ key \in Keys
    /\ tbData \in Inputs
    /\ pc = "start"
    /\ cand = <<>>
    /\ target = ""
    /\ C = <<>>
    /\ stage = NoStage
    /\ phase = ""
    /\ gone = {}
    /\ polRet = Null
    /\ threw = FALSE
    /\ usedDefault = FALSE
    /\ escaped = FALSE
    /\ result = Null
    /\ oracle = Free
    /\ run = 0
    /\ firstCall = NoCall
    /\ probe = NoProbe
    /\ scan = NoScan
    /\ app = NoApp /\ chess = NoFen /\ tasks = {} /\ trace = NoTrace /\ sw = NoWorker

policyVars == <<cand, target, C, stage, phase, gone>>
envVars == <<oracle, run, firstCall, probe, scan, app, chess, tasks, trace, sw>>
callVars == <<polRet, threw, usedDefault, escaped, result>>

\* Safety check: no candidate list, or an empty one.
NoCandidates ==
    /\ pc = "start"
    /\ ~tbData.ok \/ Len(tbData.moves) = 0
    /\ pc' = "done"
    /\ result' = Null
    /\ UNCHANGED <<key, tbData, envVars, policyVars, polRet, threw, usedDefault, escaped>>

\* getPolicy(endgameKey) finds a registered policy.
CallPolicy ==
    /\ pc = "start"
    /\ tbData.ok /\ Len(tbData.moves) > 0
    /\ key \in Registered
    /\ pc' = "policy"
    /\ UNCHANGED <<key, tbData, envVars, policyVars, callVars>>

\* getPolicy(endgameKey) finds none: the policy is the default policy.
CallDefault ==
    /\ pc = "start"
    /\ tbData.ok /\ Len(tbData.moves) > 0
    /\ key \notin Registered
    /\ polRet' = defaultPolicy(tbData)
    /\ pc' = "check"
    /\ UNCHANGED <<key, tbData, envVars, policyVars, threw, usedDefault, escaped, result>>

\* The policy decorates the moves and selects the target class.
Gate ==
    /\ pc = "policy"
    /\ LET cs == candidates(key, tbData.moves)
           t == selectTarget(cs)
       IN  /\ cand' = cs
           /\ target' = t
           /\ C' = targetSet(cs, t)
           /\ pc' = IF t = "WIN" THEN "win" ELSE IF t = "LOSS" THEN "loss" ELSE "analyze"
    /\ UNCHANGED <<key, tbData, envVars, stage, phase, gone, callVars>>

\* WIN: C.sort(...); return C[0].original
WinReturn ==
    /\ pc = "win"
    /\ C' = winSort(C)
    /\ polRet' = <<tbData.moves[C'[1].original]>>
    /\ pc' = "check"
    /\ UNCHANGED <<key, tbData, envVars, cand, target, stage, phase, gone, threw, usedDefault, escaped, result>>

\* LOSS: the anti-collapse filter.
LossFilter ==
    /\ pc = "loss"
    /\ C' = lossFilter(C)
    /\ stage' = [name |-> "lossDtm", before |-> C,
                 sat |-> IF Len(dtmValues(C)) > 0
                         THEN {C[i].uci : i \in {j \in 1..Len(C) :
                                  C[j].dtm # Null /\ C[j].dtm[1] >= lossThreshold(dtmValues(C))}}
                         ELSE {},
                 after |-> C']
    /\ pc' = "analyze"
    /\ UNCHANGED <<key, tbData, envVars, cand, target, phase, gone, callVars>>

\* Faulty variant: the first move of the list, whatever its class.
firstListed(tb, cs) == <<tb.moves[1]>>

\* if (analyzed.length === 0) return C[0].original
firstUnranked(tb, cs) == <<tb.moves[cs[1].original]>>

\* analyzePosition answers a feature vector for the candidates in ok and null
\* for the others; with no vector at all the policy returns C[0].original.
Analyze ==
    /\ pc = "analyze"
    /\ oracle.fixed => \A u \in UcisOf(C) : oracle.answer[u].kind # "throws"
    /\ \E ok \in SUBSET UcisOf(C) :
          LET analyzed == SelectSeq(C, LAMBDA c : c.uci \in ok)
          IN  /\ oracle.fixed => ok = {u \in UcisOf(C) : oracle.answer[u].kind = "features"}
              /\ IF Len(analyzed) = 0
                 THEN /\ polRet' = firstUnranked(tbData, C)
                      /\ pc' = "check"
                      /\ C' = C
                 ELSE /\ C' = analyzed
                      /\ pc' = firstStage(key)
                      /\ polRet' = polRet
    /\ UNCHANGED <<key, tbData, envVars, cand, target, stage, phase, gone, threw, usedDefault, escaped, result>>

\* The rules engine throws while a candidate is analysed (new Chess(fen), chess.move).
AnalyzeThrows ==
    /\ pc = "analyze"
    /\ oracle.fixed => \E u \in UcisOf(C) : oracle.answer[u].kind = "throws"
    /\ threw' = TRUE
    /\ pc' = "check"
    /\ UNCHANGED <<key, tbData, envVars, policyVars, polRet, usedDefault, escaped, result>>

\* One filter stage of policy k: sat is the set of candidates of C that
\* satisfy the stage's predicate, as analyzePosition computed it.
filterStage(k) ==
    /\ key = k
    /\ pc \notin ControlPoints
    /\ \E sat \in SUBSET UcisOf(C) :
          LET after == keepIfAny(C, sat)
          IN  /\ oracle.fixed => sat = {u \in UcisOf(C) : pc \in oracle.answer[u].sat}
              /\ C' = after
              /\ stage' = [name |-> pc, before |-> C, sat |-> sat, after |-> after]
              /\ pc' = nextStage(k, target, pc, sat # {})
              /\ phase' = IF pc = "phaseC" /\ sat # {} THEN "C"
                          ELSE IF pc = "phaseB" THEN (IF sat # {} THEN "B" ELSE "A")
                          ELSE phase
              /\ gone' = IF pc \in {"pawnGone", "keepPawn"}
                         THEN (IF sat = {} THEN UcisOf(C) ELSE {})
                         ELSE gone
    /\ UNCHANGED <<key, tbData, envVars, cand, target, callVars>>

kpKpCascade == filterStage("KP_KP")
krKrpCascade == filterStage("KR_KRP")
kbpKbCascade == filterStage("KBP_KB")
krKpCascade == filterStage("KR_KP")
krpKrCascade == filterStage("KRP_KR")

\* With the rules engine fixed, the feature vectors are the ones it answers.
asAnswered(f) == oracle.fixed => \A u \in UcisOf(C) : f[u] = oracle.answer[u].rank

\* The vectors a candidate's features are drawn from: the set D of the
\* endgame, or the answers of the fixed rules engine.
featureVectors(D) ==
    IF oracle.fixed THEN {oracle.answer[u].rank : u \in UcisOf(C)} ELSE D

\* C.sort(...); return C[0].original
rankReturn(sorted) ==
    /\ C' = withoutFeatures(sorted)
    /\ polRet' = <<tbData.moves[sorted[1].original]>>
    /\ pc' = "check"
    /\ UNCHANGED <<key, tbData, envVars, cand, target, stage, phase, gone, threw, usedDefault, escaped, result>>

kpKpRank ==
    /\ key = "KP_KP" /\ pc = "rank"
    /\ \E f \in [UcisOf(C) -> featureVectors(kpKpRankFeatures)] :
          /\ asAnswered(f)
          /\ LET cs == withFeatures(C, f)
             IN  rankReturn(sort(cs, [a \in SetOf(cs), b \in SetOf(cs) |-> kpKpCompare(target, a, b)]))

krKrpRank ==
    /\ key = "KR_KRP" /\ pc = "rank"
    /\ \E f \in [UcisOf(C) -> featureVectors(krKrpRankFeatures)] :
          /\ asAnswered(f)
          /\ LET cs == withFeatures(C, f)
             IN  rankReturn(sort(cs, [a \in SetOf(cs), b \in SetOf(cs) |->
                                        krKrpCompare(target, phase, a, b)]))

\* In a DRAW context the pawnGone feature was read by the keep-the-pawn stage.
kbpKbRank ==
    /\ key = "KBP_KB" /\ pc = "rank"
    /\ \E f \in [UcisOf(C) -> featureVectors(kbpKbRankFeatures)] :
          /\ asAnswered(f)
          /\ target = "DRAW" => \A u \in UcisOf(C) : f[u].pawnGone = (u \in gone)
          /\ LET cs == withFeatures(C, f)
             IN  rankReturn(sort(cs, [a \in SetOf(cs), b \in SetOf(cs) |->
                                        kbpKbCompare(target, a, b)]))

krKpRank ==
    /\ key = "KR_KP" /\ pc = "rank"
    /\ \E f \in [UcisOf(C) -> featureVectors(krKpRankFeatures)] :
          /\ asAnswered(f)
          /\ LET cs == withFeatures(C, f)
             IN  rankReturn(sort(cs, [a \in SetOf(cs), b \in SetOf(cs) |-> krKpCompare(a, b)]))

krpKrRank ==
    /\ key = "KRP_KR" /\ pc = "rank"
    /\ \E f \in [UcisOf(C) -> featureVectors(krpKrRankFeatures)] :
          /\ asAnswered(f)
          /\ target = "DRAW" => \A u \in UcisOf(C) : f[u].pawnGone = (u \in gone)
          /\ LET cs == withFeatures(C, f)
             IN  rankReturn(sort(cs, [a \in SetOf(cs), b \in SetOf(cs) |->
                                        krpKrCompare(target, a, b)]))

\* selectComputerMove after policy(input): fallbacks and return.
Finish ==
    /\ pc = "check"
    /\ LET out == afterPolicy(tbData, polRet, threw)
       IN  /\ result' = out.move
           /\ usedDefault' = out.usedDefault
           /\ escaped' = out.escaped
    /\ pc' = "done"
    /\ UNCHANGED <<key, tbData, envVars, policyVars, polRet, threw>>

Next ==
    \/ NoCandidates \/ CallPolicy \/ CallDefault
    \/ Gate \/ WinReturn \/ LossFilter \/ Analyze \/ AnalyzeThrows
    \/ kpKpCascade \/ krKrpCascade \/ kbpKbCascade \/ krKpCascade \/ krpKrCascade
    \/ kpKpRank \/ krKrpRank \/ kbpKbRank \/ krKpRank \/ krpKrRank
    \/ Finish

Spec == Init /\ [][Next]_vars

TypeOK ==
    /\ key \in Keys
    /\ pc \in ControlPoints \cup {"whiteCanCaptureBPNow", "whitePawnCanCaptureBPNow",
            "bpFreeCaptureExists", "whiteKingCanCaptureBPNow", "Useful", "phaseC", "phaseB",
            "R_hang", "PawnKingTakeSafe", "PawnTakeSafe", "Trade", "bishopLost",
            "pawnPromotesNow", "bishopTradeOffered", "pawnGone", "promoted",
            "safePawnCaptureExists", "safeRookCaptureExists", "safeKingCaptureExists",
            "pawnPoisoned", "kingThreatensRook", "whitePawnPromotesNow", "keepPawn"}
    /\ target \in {"", "WIN", "DRAW", "LOSS"}
    /\ Len(result) <= 1 /\ Len(polRet) <= 1

\* ======================================================= the rules engine fixed
\* The position is fixed and with it what analyzePosition answers for each
\* candidate: no vector (null), an exception, or a feature vector, given as
\* the set of filter stages the candidate passes (sat) and the features the
\* final comparator reads (rank).
MaxAnalysed == 3

answer(passes, features) == [kind |-> "features", sat |-> passes, rank |-> features]
NoVector == [kind |-> "null", sat |-> {}, rank |-> <<>>]
Throws == [kind |-> "throws", sat |-> {}, rank |-> <<>>]

\* Lists of DRAW candidates and lists of LOSS candidates, all without distance.
DrawOrLossLists(n) ==
    Lists({Move(S_draw, Null, FALSE, SanQuiet)}, n) \cup Lists({Move(S_win, Null, FALSE, SanQuiet)}, n)

fixedOracles(ms, answers) ==
    {[fixed |-> TRUE, answer |-> a] : a \in [{ms[i].uci : i \in 1..Len(ms)} -> answers]}

InitFixed(k, lists, answers) ==
    /\ key = k
    /\ tbData \in {[ok |-> TRUE, moves |-> ms] : ms \in lists}
    /\ oracle \in fixedOracles(tbData.moves, answers)
    /\ pc = "start"
    /\ cand = <<>> /\ target = "" /\ C = <<>> /\ stage = NoStage /\ phase = "" /\ gone = {}
    /\ polRet = Null /\ threw = FALSE /\ usedDefault = FALSE /\ escaped = FALSE /\ result = Null
    /\ firstCall = NoCall
    /\ probe = NoProbe
    /\ scan = NoScan
    /\ app = NoApp /\ chess = NoFen /\ tasks = {} /\ trace = NoTrace /\ sw = NoWorker

\* ------------------------------------------------------- KR_KRP, every profile
krKrpBase == [SafeCheck |-> FALSE, CutoffOK |-> FALSE, PawnDef |-> FALSE, Behind |-> FALSE]

\* R_hang = a white move captures the rook, Trade = the white rook does: the
\* candidate passes both stages, the Trade stage only, or none.
krKrpRookProfiles == {{"R_hang", "Trade"}, {"Trade"}, {}}

\* PawnTakeSafe = a safe capture of the pawn exists, PawnKingTakeSafe = a safe
\* capture by the king does.
krKrpPawnProfiles == {{"PawnKingTakeSafe", "PawnTakeSafe"}, {"PawnKingTakeSafe"}, {}}

krKrpProfiles ==
    {answer(r \cup q \cup u, krKrpBase) :
        r \in krKrpRookProfiles, q \in krKrpPawnProfiles, u \in {{}, {"Useful"}}}

MaxProfiled == 2

InitKrKrp ==
    /\ \E n \in 1..MaxProfiled : InitFixed("KR_KRP", DrawOrLossLists(n), krKrpProfiles)
    /\ run = 0

NextKrKrp ==
    \/ CallPolicy \/ Gate \/ LossFilter \/ Analyze
    \/ krKrpCascade \/ krKrpRank \/ Finish

SpecKrKrp == InitKrKrp /\ [][NextKrKrp]_vars

\* ------------------------------------------------ the five endgames, sampled
\* KP_KP: the black pawn stands on its third rank (phase B); a king move
\* leaves it there, a push brings it to the second (phase C).  A king move
\* is useful when it gains the opposition or approaches the pawn.
kpKpBase ==
    [oppositionGoodForBlack |-> FALSE, BK_attacks_WP |-> FALSE, BKInFrontOfBP |-> FALSE,
     kingCloserToWP |-> FALSE, kingCloserToBP |-> FALSE, bpRank |-> 3]

\* no capture of the black pawn / the white king captures it for free
kpKpNoCapture ==
    {"whiteCanCaptureBPNow", "whitePawnCanCaptureBPNow", "bpFreeCaptureExists",
     "whiteKingCanCaptureBPNow"}
kpKpKingCapture == {"whitePawnCanCaptureBPNow"}

kpKpKingMoves ==
    {answer(h \cup (IF opp \/ closer THEN {"Useful"} ELSE {}) \cup {"phaseB"},
            [kpKpBase EXCEPT !.oppositionGoodForBlack = opp, !.kingCloserToBP = closer]) :
        h \in {kpKpNoCapture, kpKpKingCapture}, opp \in BOOLEAN, closer \in BOOLEAN}

kpKpPawnMoves ==
    {answer(h \cup {"Useful", "phaseC"}, [kpKpBase EXCEPT !.bpRank = 2]) :
        h \in {kpKpNoCapture, kpKpKingCapture}}

kpKpAnswers == kpKpKingMoves \cup kpKpPawnMoves

\* KR_KRP: the black pawn is in phase B, a push brings it to phase C.
krKrpNoLoss == {"R_hang", "PawnKingTakeSafe", "PawnTakeSafe", "Trade"}

krKrpAnswers ==
    { answer(krKrpNoLoss \cup {"Useful", "phaseB"}, krKrpBase),
      answer(krKrpNoLoss \cup {"phaseB"}, krKrpBase),
      answer(krKrpNoLoss \cup {"Useful", "phaseB"}, [krKrpBase EXCEPT !.SafeCheck = TRUE]),
      answer(krKrpNoLoss \cup {"Useful", "phaseB"}, [krKrpBase EXCEPT !.PawnDef = TRUE]),
      answer({"Trade", "PawnKingTakeSafe", "PawnTakeSafe", "Useful", "phaseB"}, krKrpBase),
      answer(krKrpNoLoss \cup {"Useful", "phaseC"}, krKrpBase),
      answer({"R_hang", "Trade", "PawnKingTakeSafe", "Useful", "phaseC"}, krKrpBase) }

\* KBP_KB: the white pawn is in phase B unless the candidate captures it; a
\* capture is useful only when it gives check.
kbpKbNoLoss == {"bishopLost", "pawnPromotesNow", "bishopTradeOffered"}
kbpKbCapture == [kbpKbBase EXCEPT !.pawnGone = TRUE, !.phase = "NOPAWN"]

kbpKbAnswers ==
    { answer(kbpKbNoLoss \cup {"pawnGone", "Useful"}, kbpKbBase),
      answer(kbpKbNoLoss \cup {"pawnGone"}, kbpKbBase),
      answer(kbpKbNoLoss \cup {"pawnGone", "Useful"}, [kbpKbBase EXCEPT !.SafeCheck = TRUE]),
      answer({"pawnPromotesNow", "bishopTradeOffered", "pawnGone", "Useful"}, kbpKbBase),
      answer(kbpKbNoLoss, kbpKbCapture),
      answer(kbpKbNoLoss \cup {"Useful"}, [kbpKbCapture EXCEPT !.SafeCheck = TRUE]) }

\* KR_KP: the black pawn is on its third rank (phase B), a push brings it to
\* the second (phase C).  The pawn is poisoned when every capture of it loses
\* the rook.
krKpNoLoss ==
    {"promoted", "safePawnCaptureExists", "safeRookCaptureExists", "safeKingCaptureExists"}
krKpPush == [krKpBase EXCEPT !.phase = "C", !.pawnRank = <<2>>]

krKpAnswers ==
    { answer(krKpNoLoss \cup {"Useful"}, krKpBase),
      answer(krKpNoLoss, krKpBase),
      answer(krKpNoLoss \cup {"Useful", "pawnPoisoned"}, [krKpBase EXCEPT !.pawnDefByKing = TRUE]),
      answer(krKpNoLoss \cup {"Useful", "kingThreatensRook"}, krKpBase),
      answer(krKpNoLoss \cup {"Useful"}, krKpPush),
      answer(krKpNoLoss \cup {"Useful", "pawnPoisoned"}, krKpPush),
      answer({"promoted", "safeKingCaptureExists", "Useful"}, krKpPush) }

\* KRP_KR: the white pawn is in phase B unless the candidate captures it; a
\* rook capture is useful only when it gives check.
krpKrNoLoss == {"R_hang", "whitePawnPromotesNow", "Trade"}
krpKrCapture == [krpKrBase EXCEPT !.pawnGone = TRUE, !.phase = "NOPAWN"]

krpKrAnswers ==
    { answer(krpKrNoLoss \cup {"Useful", "keepPawn"}, krpKrBase),
      answer(krpKrNoLoss \cup {"keepPawn"}, krpKrBase),
      answer(krpKrNoLoss \cup {"Useful", "keepPawn"}, [krpKrBase EXCEPT !.SafeCheck = TRUE]),
      answer(krpKrNoLoss \cup {"Useful", "keepPawn"}, [krpKrBase EXCEPT !.rookBehindPawn = TRUE]),
      answer({"whitePawnPromotesNow", "Trade", "Useful", "keepPawn"}, krpKrBase),
      answer(krpKrNoLoss \cup {"Useful"}, krpKrCapture),
      answer(krpKrNoLoss, krpKrCapture),
      answer(krpKrNoLoss \cup {"Useful"}, [krpKrCapture EXCEPT !.SafeCheck = TRUE]) }

Answers(k) ==
    CASE k = "KP_KP" -> kpKpAnswers
      [] k = "KR_KRP" -> krKrpAnswers
      [] k = "KBP_KB" -> kbpKbAnswers
      [] k = "KR_KP" -> krKpAnswers
      [] k = "KRP_KR" -> krpKrAnswers

InitAnswered ==
    /\ \E k \in Registered, n \in 1..MaxAnalysed : InitFixed(k, DrawOrLossLists(n), Answers(k))
    /\ run = 0

NextAnswered ==
    \/ CallPolicy \/ Gate \/ LossFilter \/ Analyze
    \/ kpKpCascade \/ krKrpCascade \/ kbpKbCascade \/ krKpCascade \/ krpKrCascade
    \/ kpKpRank \/ krKrpRank \/ kbpKbRank \/ krKpRank \/ krpKrRank
    \/ Finish

SpecAnswered == InitAnswered /\ [][NextAnswered]_vars

\* ------------------------------------------------------ repeated invocations
\* selectComputerMove is called again on the same position: with the same
\* list, with other distances, or with the list reversed, and then once more
\* with the list of the first call.  Every call starts with fresh locals;
\* firstCall remembers the first call's list and result.
MaxRepeated == 2

RepeatMoves ==
    { Move(S_draw, Null, FALSE, SanQuiet), Move(S_win, <<13>>, FALSE, SanQuiet),
      Move(S_loss, <<-1>>, FALSE, SanQuiet) }

\* the answers of a candidate that loses nothing at the first stage and is
\* useful, no vector, and an exception
RepeatAnswers(k) ==
    IF k \in Registered
    THEN {a \in Answers(k) : "Useful" \in a.sat /\ firstStage(k) \in a.sat} \cup {NoVector, Throws}
    ELSE {NoVector}

InitRepeat ==
    /\ \E k \in Keys, n \in 1..MaxRepeated : InitFixed(k, Lists(RepeatMoves, n), RepeatAnswers(k))
    /\ run = 1

\* the distances the oracle can give with a label instead of d
otherDtm(d) ==
    IF d = Null THEN <<7>> ELSE IF d[1] < 0 THEN <<d[1] - 1>> ELSE <<d[1] - 12>>

redistanced(ms) ==
    { [i \in 1..Len(ms) |-> [ms[i] EXCEPT !.dtm = IF i \in D THEN otherDtm(@) ELSE @]] :
        D \in SUBSET (1..Len(ms)) }

reversed(ms) == [i \in 1..Len(ms) |-> ms[Len(ms) + 1 - i]]

Reinvoke ==
    /\ pc = "done"
    /\ \/ /\ run = 1
          /\ firstCall' = [moves |-> tbData.moves, result |-> result]
          /\ \E ms \in redistanced(tbData.moves) \cup {reversed(tbData.moves)} :
                tbData' = [tbData EXCEPT !.moves = ms]
       \/ /\ run = 2
          /\ tbData.moves # firstCall.moves
          /\ firstCall' = firstCall
          /\ tbData' = [tbData EXCEPT !.moves = firstCall.moves]
    /\ run' = run + 1
    /\ pc' = "start"
    /\ cand' = <<>> /\ target' = "" /\ C' = <<>> /\ stage' = NoStage /\ phase' = "" /\ gone' = {}
    /\ polRet' = Null /\ threw' = FALSE /\ usedDefault' = FALSE /\ escaped' = FALSE
    /\ result' = Null
    /\ UNCHANGED <<key, oracle, probe, scan, app, chess, tasks, trace, sw>>

NextRepeat ==
    \/ CallPolicy \/ CallDefault
    \/ Gate \/ WinReturn \/ LossFilter \/ Analyze \/ AnalyzeThrows
    \/ kpKpCascade \/ krKrpCascade \/ kbpKbCascade \/ krKpCascade \/ krpKrCascade
    \/ kpKpRank \/ krKrpRank \/ kbpKbRank \/ krKpRank \/ krpKrRank
    \/ Finish \/ Reinvoke

SpecRepeat == InitRepeat /\ [][NextRepeat]_vars

\* ----------------------------------------------------- any registered policy
\* MovePolicies.register accepts any function: the policy found for the key
\* returns a listed move, a move of the list with another distance, a move
\* that is not in the list, nothing, or throws.
ForeignUci == UciPool[Len(UciPool)]

policyReturns(ms) ==
    {Null}
    \cup {<<ms[i]>> : i \in 1..Len(ms)}
    \cup {<<[ms[1] EXCEPT !.dtm = <<99>>]>>, <<[ms[1] EXCEPT !.uci = ForeignUci]>>}

CallRegistered ==
    /\ pc = "start"
    /\ tbData.ok /\ Len(tbData.moves) > 0
    /\ key \in Registered
    /\ \/ threw' = TRUE /\ polRet' = Null
       \/ threw' = FALSE /\ polRet' \in policyReturns(tbData.moves)
    /\ pc' = "check"
    /\ UNCHANGED <<key, tbData, envVars, policyVars, usedDefault, escaped, result>>

NextRegistered == NoCandidates \/ CallRegistered \/ CallDefault \/ Finish

SpecRegistered == Init /\ [][NextRegistered]_vars

\* ------------------------------------------------- analyzePosition, its probes
\* analyzePosition(fen, uci) is called for each candidate of the working set.
\* It plays the candidate on a new Chess(fen), then probes replies of the
\* opponent with chess.move / chess.undo.  probe.sim is the stack of moves
\* played on the position fen: the candidate, then the probes.
MaxProbes == 2

play(sim, mv) == Append(sim, mv)

\* Faulty variant: the probe is left on the board.
undoNothing(sim) == sim

\* chess.undo() takes back the last move played
undo(sim) == SubSeq(sim, 1, Len(sim) - 1)

\* The probing loops of each extractor, in order.  count: every white move is
\* played and undone (checking moves are counted); capture: captures are
\* played and undone, with an early break; nested: each capture is answered
\* by black captures that are played and undone in an inner loop.
probeLoops(k) ==
    CASE k = "KP_KP" -> <<"capture">>
      [] k = "KR_KRP" -> <<"nested">>
      [] k = "KR_KP" -> <<"count", "capture">>
      [] k = "KBP_KB" -> <<"capture">>
      [] k = "KRP_KR" -> <<>>

\* the policy's loop over the working set reaches its first candidate
InitProbe ==
    /\ key \in Registered
    /\ \E n \in 1..MaxProbes :
          tbData \in {[ok |-> TRUE, moves |-> ms] :
                        ms \in Lists({Move(S_draw, Null, FALSE, SanQuiet)}, n)}
    /\ pc = "analyze"
    /\ cand = candidates(key, tbData.moves) /\ target = "DRAW" /\ C = cand
    /\ stage = NoStage /\ phase = "" /\ gone = {}
    /\ polRet = Null /\ threw = FALSE /\ usedDefault = FALSE /\ escaped = FALSE /\ result = Null
    /\ oracle = Free /\ run = 0 /\ firstCall = NoCall
    /\ probe = [NoProbe EXCEPT !.at = "call", !.i = 1]
    /\ scan = NoScan
    /\ app = NoApp /\ chess = NoFen /\ tasks = {} /\ trace = NoTrace /\ sw = NoWorker

machineVars == <<key, tbData, pc, policyVars, callVars, oracle, run, firstCall, scan,
                 app, chess, tasks, trace, sw>>

\* const chess = new Chess(fen); chess.move(candidate): null when the move is
\* refused or a piece is missing, else the probing loops start.
NewChess ==
    /\ probe.at = "call" /\ probe.i <= Len(C)
    /\ \/ probe' = [probe EXCEPT !.i = @ + 1, !.sim = <<>>]
       \/ \E n \in 0..MaxProbes :
             probe' = [probe EXCEPT
                          !.sim = play(<<>>, C[probe.i].uci),
                          !.loops = probeLoops(key),
                          !.at = IF probeLoops(key) = <<>> THEN "features" ELSE "loop",
                          !.outer = n, !.inner = 0, !.applied = 0, !.undone = 0]
    /\ UNCHANGED machineVars

\* for (const wMove of ...) { const played = chess.move(wMove); if (!played) continue; ...
ProbePlay ==
    /\ probe.at = "loop" /\ probe.outer > 0
    /\ \/ probe' = [probe EXCEPT !.outer = @ - 1]
       \/ /\ Head(probe.loops) # "nested"
          /\ probe' = [probe EXCEPT !.sim = play(@, "w"), !.applied = @ + 1, !.at = "undo"]
       \/ /\ Head(probe.loops) = "nested"
          /\ \E n \in 0..MaxProbes :
                probe' = [probe EXCEPT !.sim = play(@, "w"), !.applied = @ + 1,
                                       !.at = "reply", !.inner = n]
    /\ UNCHANGED machineVars

\* KR_KRP: for (const bMove of capturesWR) { const bPlayed = ...; if (!bPlayed) continue; ...
ReplyPlay ==
    /\ probe.at = "reply" /\ probe.inner > 0
    /\ \/ probe' = [probe EXCEPT !.inner = @ - 1]
       \/ probe' = [probe EXCEPT !.sim = play(@, "b"), !.applied = @ + 1, !.at = "replyUndo"]
    /\ UNCHANGED machineVars

\* ... chess.undo(); if (!whiteCanCaptureBlackRookNow) { ...; break; } }
ReplyUndo ==
    /\ probe.at = "replyUndo"
    /\ \E refutes \in BOOLEAN :
          probe' = [probe EXCEPT !.sim = undo(@), !.undone = @ + 1,
                                 !.at = IF refutes THEN "undo" ELSE "reply",
                                 !.inner = IF refutes THEN 0 ELSE @ - 1]
    /\ UNCHANGED machineVars

\* the inner loop ends without a refutation
ReplyEnd ==
    /\ probe.at = "reply" /\ probe.inner = 0
    /\ probe' = [probe EXCEPT !.at = "undo"]
    /\ UNCHANGED machineVars

\* The one chess.undo() of the path taken: before break or continue when the
\* capture is safe, at the end of the body otherwise.  A counting loop never breaks.
ProbeUndo ==
    /\ probe.at = "undo"
    /\ \E stop \in BOOLEAN :
          /\ Head(probe.loops) = "count" => ~stop
          /\ probe' = [probe EXCEPT !.sim = undo(@), !.undone = @ + 1, !.at = "loop",
                                    !.outer = IF stop THEN 0 ELSE @ - 1]
    /\ UNCHANGED machineVars

\* a loop is left: the next loop starts, or the features are computed
LoopEnd ==
    /\ probe.at = "loop" /\ probe.outer = 0
    /\ IF Len(probe.loops) > 1
       THEN \E n \in 0..MaxProbes : probe' = [probe EXCEPT !.loops = Tail(@), !.outer = n]
       ELSE probe' = [probe EXCEPT !.loops = <<>>, !.at = "features"]
    /\ UNCHANGED machineVars

\* the features read after the loops (check, opposition, distances) and the return
ReadFeatures ==
    /\ probe.at = "features"
    /\ probe' = [probe EXCEPT !.at = "call", !.i = @ + 1]
    /\ UNCHANGED machineVars

NextProbe ==
    \/ NewChess \/ ProbePlay \/ ReplyPlay \/ ReplyUndo \/ ReplyEnd
    \/ ProbeUndo \/ LoopEnd \/ ReadFeatures

SpecProbe == InitProbe /\ [][NextProbe]_vars

\* ------------------------------------- analyzePosition, the capture loops
\* KR_KP: for (const wMove of pawnCaptures) { ... }, KBP_KB: for (const w of
\* whiteMoves) { if (w.to !== BB) continue; ... }.  scan.moves is the list of
\* the opponent's captures of the piece, in the order of chess.moves(); a
\* capture is [piece, promotion, reply], reply telling whether the mover has
\* the reply the loop looks for once the capture is played
\* (blackCanCaptureRookNow, canRecaptureOnSq).
Orderings(M) ==
    {s \in [1..Cardinality(M) -> M] : \A i, j \in 1..Cardinality(M) : i # j => s[i] # s[j]}

\* White has a king and a rook: at most one capture of the pawn by each.
krKpCaptures ==
    UNION {Orderings(M) :
             M \in {N \in SUBSET [piece : {"k", "r"}, promotion : {""}, reply : BOOLEAN] :
                      \A x, y \in N : x.piece = y.piece => x = y}}

\* White has a king, a bishop and a pawn.  The pawn captures once, or once
\* for each promotion (two of them are kept), listed one after the other.
\* A king is never recaptured.  When two white pieces can capture on the
\* bishop's square, each of them guards the square once the other has
\* captured, so that the black king has no recapture.
kbpKbCaptures ==
    UNION {{s \in Orderings(M) :
              \A i, j \in 1..Len(s) : (s[i].piece = "p" /\ s[j].piece = "p") => Abs(i - j) <= 1} :
             M \in {N \in SUBSET [piece : {"k", "b", "p"}, promotion : {"", "q", "n"}, reply : BOOLEAN] :
                      /\ \A x \in N : x.piece # "p" => x.promotion = ""
                      /\ \A x \in N : x.piece = "k" => ~x.reply
                      /\ \A x, y \in N : x.piece = y.piece =>
                            /\ x.reply = y.reply
                            /\ x.promotion = y.promotion => x = y
                            /\ (x.promotion = "") = (y.promotion = "")
                      /\ \A x \in N : (x.promotion = "q") => \E y \in N : y.promotion = "n"
                      /\ \A x \in N : (x.promotion = "n") => \E y \in N : y.promotion = "q"
                      /\ (\E x, y \in N : x.piece # y.piece) => \A x \in N : ~x.reply}}

\* analyzePosition has played the candidate and reaches the capture loop
InitScan ==
    /\ key \in {"KR_KP", "KBP_KB"}
    /\ tbData = [ok |-> TRUE, moves |-> <<Move(S_draw, Null, FALSE, SanQuiet) @@ [uci |-> UciPool[1]]>>]
    /\ pc = "analyze"
    /\ cand = candidates(key, tbData.moves) /\ target = "DRAW" /\ C = cand
    /\ stage = NoStage /\ phase = "" /\ gone = {}
    /\ polRet = Null /\ threw = FALSE /\ usedDefault = FALSE /\ escaped = FALSE /\ result = Null
    /\ oracle = Free /\ run = 0 /\ firstCall = NoCall /\ probe = NoProbe
    /\ app = NoApp /\ chess = NoFen /\ tasks = {} /\ trace = NoTrace /\ sw = NoWorker
    /\ \E ms \in (IF key = "KR_KP" THEN krKpCaptures ELSE kbpKbCaptures) :
          scan = [NoScan EXCEPT !.at = "loop", !.moves = ms, !.i = 1]

scanFixed == <<key, tbData, pc, policyVars, callVars, oracle, run, firstCall, probe,
               app, chess, tasks, trace, sw>>

\* const playedW = chess.move(...): a move listed by chess.moves() is played.
\* KBP_KB sets bishopHang before it plays the capture.
CapturePlay ==
    /\ scan.at = "loop" /\ scan.i <= Len(scan.moves)
    /\ scan' = [scan EXCEPT !.at = "played",
                            !.flags.bishopHang = IF key = "KBP_KB" THEN TRUE ELSE @]
    /\ UNCHANGED scanFixed

\* KR_KP: the body of the loop after the capture is played.
krKpProbe ==
    /\ key = "KR_KP" /\ scan.at = "played"
    /\ LET wMove == scan.moves[scan.i]
           blackCanCaptureRookNow == wMove.reply
           f == IF ~blackCanCaptureRookNow
                THEN [scan.flags EXCEPT
                         !.safePawnCaptureExists = TRUE,
                         !.safeKingCaptureExists = IF wMove.piece = "k" THEN TRUE ELSE @,
                         !.safeRookCaptureExists = IF wMove.piece = "r" THEN TRUE ELSE @]
                ELSE scan.flags
       IN  scan' = [scan EXCEPT !.flags = f,
                                !.at = IF f.safeRookCaptureExists THEN "done" ELSE "loop",
                                !.i = @ + 1]
    /\ UNCHANGED scanFixed

\* KBP_KB: the body of the loop after the capture is played.
kbpKbProbe ==
    /\ key = "KBP_KB" /\ scan.at = "played"
    /\ LET w == scan.moves[scan.i]
           canRecaptureOnSq == w.reply
           f == [scan.flags EXCEPT
                    !.bishopTradeOffered = IF w.piece = "b" /\ canRecaptureOnSq THEN TRUE ELSE @,
                    !.bishopLost = IF ~canRecaptureOnSq THEN TRUE ELSE @]
       IN  scan' = [scan EXCEPT !.flags = f,
                                !.at = IF f.bishopLost THEN "done" ELSE "loop",
                                !.i = @ + 1]
    /\ UNCHANGED scanFixed

\* the list is exhausted
CaptureEnd ==
    /\ scan.at = "loop" /\ scan.i > Len(scan.moves)
    /\ scan' = [scan EXCEPT !.at = "done"]
    /\ UNCHANGED scanFixed

NextScan == CapturePlay \/ krKpProbe \/ kbpKbProbe \/ CaptureEnd

SpecScan == InitScan /\ [][NextScan]_vars

\* ------------------------------------------- the same candidates, reordered
\* selectComputerMove is invoked on a position whose candidates are all
\* analysed, then again on the same position with the oracle's list in
\* another order.
InitPermuted ==
    /\ \E k \in Registered, n \in 1..MaxAnalysed : InitFixed(k, DrawOrLossLists(n), Answers(k))
    /\ run = 1

Permute ==
    /\ pc = "done" /\ run = 1
    /\ firstCall' = [moves |-> tbData.moves, result |-> result]
    /\ \E ms \in Orderings(SetOf(tbData.moves)) :
          /\ ms # tbData.moves
          /\ tbData' = [tbData EXCEPT !.moves = ms]
    /\ run' = 2
    /\ pc' = "start"
    /\ cand' = <<>> /\ target' = "" /\ C' = <<>> /\ stage' = NoStage /\ phase' = "" /\ gone' = {}
    /\ polRet' = Null /\ threw' = FALSE /\ usedDefault' = FALSE /\ escaped' = FALSE
    /\ result' = Null
    /\ UNCHANGED <<key, oracle, probe, scan, app, chess, tasks, trace, sw>>

NextPermuted == NextAnswered \/ Permute

SpecPermuted == InitPermuted /\ [][NextPermuted]_vars

\* ================================================================ the trainer
\* The page around the engine (trivial_endgames.js): its globals are the
\* fields of app, its chess object is chess, and every async function is cut
\* at its awaits: the part up to an await is one action, the function then
\* waits in tasks and the part after the await is the next action.  A task
\* whose await is on a value that is already there (a position in tbCache)
\* is a microtask: it runs before any click, network answer or animation end.
\* A position is the game it belongs to and the moves played from its start;
\* the moves are named after what they do to the result.
MaxGames == 2
MaxPlies == 3
MaxPending == 1
MaxStreak == 2

WhiteTags == {"good", "slip", "blunder", "final"}
BlackTags == {"reply", "finalReply"}

\* the result of the position for White (the user), 2, 0 or -2, w being the
\* result of the starting position: a slip gives the win away for a draw, a
\* blunder loses, any other move keeps the result
RECURSIVE val(_, _)
val(w, h) ==
    IF h = <<>> THEN w
    ELSE LET t == h[Len(h)]
         IN  IF t = "slip" THEN 0
             ELSE IF t = "blunder" THEN -2
             ELSE val(w, SubSeq(h, 1, Len(h) - 1))

\* chess.turn() === 'w'
whiteToMove(f) == Len(f.hist) % 2 = 0

\* isReallyGameOver()
terminal(f) == f.hist # <<>> /\ f.hist[Len(f.hist)] \in {"final", "finalReply"}

\* the moves chess.move accepts on f
legal(f) ==
    IF terminal(f) \/ Len(f.hist) >= MaxPlies \/ f.g = 0 THEN {}
    ELSE LET v == val(app.outcome, f.hist)
         IN  IF whiteToMove(f)
             THEN {"good"} \cup (IF v = 2 THEN {"slip"} ELSE {})
                           \cup (IF v >= 0 THEN {"blunder", "final"} ELSE {})
             ELSE {"reply"} \cup (IF v <= 0 THEN {"finalReply"} ELSE {})

chessMove(f, t) == [f EXCEPT !.hist = Append(@, t)]

\* chess.undo(): nothing to take back on the starting position
chessUndo(f) == [f EXCEPT !.hist = IF @ = <<>> THEN @ ELSE SubSeq(@, 1, Len(@) - 1)]

\* what the tablebase answers for f: the result for the side to move and the
\* moves (TRUE: a non-empty list)
response(f) ==
    [fen |-> f,
     wdl |-> IF whiteToMove(f) THEN val(app.outcome, f.hist) ELSE 0 - val(app.outcome, f.hist),
     moves |-> ~terminal(f)]

\* currentTbData && currentTbData.moves && currentTbData.moves.length > 0
hasMoves(a) == a.currentTbData # <<>> /\ a.currentTbData[1].moves

\* a suspended function: where it waits, its localGameId (for the functions
\* that have none, the gameId when they were called), the position it
\* fetches or shows, and whether the awaited value is there already
Task(kind, at, id, fen, aux, cache) ==
    [kind |-> kind, at |-> at, id |-> id, fen |-> fen, aux |-> aux,
     micro |-> (at = "fetch" /\ fen \in cache)]

\* no microtask is waiting: the event loop takes the next click or answer
quiet == \A t \in tasks : ~t.micro
runnable(t) == t.micro \/ quiet

\* the suspended functions of the game being played
own == {t \in tasks : t.id = app.gameId}

engineVars == <<key, tbData, pc, policyVars, callVars, oracle, run, firstCall, probe, scan, sw>>

InitTrainer ==
    /\ key = "KP_K" /\ tbData = [ok |-> FALSE, moves |-> <<>>] /\ pc = "done"
    /\ cand = <<>> /\ target = "" /\ C = <<>> /\ stage = NoStage /\ phase = "" /\ gone = {}
    /\ polRet = Null /\ threw = FALSE /\ usedDefault = FALSE /\ escaped = FALSE /\ result = Null
    /\ oracle = Free /\ run = 0 /\ firstCall = NoCall /\ probe = NoProbe /\ scan = NoScan
    /\ \E o \in {2, 0, -2} : app = [NoApp EXCEPT !.streak = 1, !.outcome = o]
    /\ chess = NoFen /\ tasks = {} /\ trace = NoTrace /\ sw = NoWorker

\* Faulty variant: the streak is updated whether or not it was updated before.
streakOpenAlways(a) == TRUE

\* if (!streakInvalidated): the streak of the game was not yet updated
streakOpen(a) == ~a.streakInvalidated

\* the streak after streak++ or streak = 0, and the count of its changes
streakUp(a) == IF a.streak < MaxStreak THEN a.streak + 1 ELSE a.streak
counted(tr) == [tr EXCEPT !.changes = IF @ < 2 THEN @ + 1 ELSE @]

\* startNewGame up to await generateValidPosition()
NewGameClick ==
    /\ quiet /\ app.gameId < MaxGames
    /\ app' = [app EXCEPT !.gameId = @ + 1, !.gameActive = FALSE, !.isUserTurn = FALSE,
                          !.currentTbData = <<>>, !.tbCache = {}, !.btnGuess = FALSE,
                          !.btnUndo = FALSE, !.analysisMode = FALSE,
                          !.streakInvalidated = FALSE, !.guessLock = FALSE,
                          !.status = "setup"]
    /\ tasks' = tasks \cup {Task("new", "generate", app.gameId + 1, NoFen, NoFen, {})}
    /\ trace' = NoTrace
    /\ UNCHANGED <<chess, engineVars>>

\* startNewGame after generateValidPosition(): the position is loaded, or
\* the positions could not be fetched
PositionGenerated ==
    \E t \in tasks, ok \in BOOLEAN :
        /\ t.kind = "new" /\ t.at = "generate" /\ runnable(t)
        /\ trace' = trace
        /\ IF t.id # app.gameId
           THEN /\ tasks' = tasks \ {t}
                /\ UNCHANGED <<app, chess>>
           ELSE IF ok
           THEN LET fen == [g |-> t.id, hist |-> <<>>]
                IN  /\ app' = [app EXCEPT !.currentFen = fen, !.initialFen = fen]
                    /\ chess' = fen
                    /\ tasks' = (tasks \ {t}) \cup {Task("new", "board", t.id, fen, NoFen, {})}
           ELSE /\ app' = [app EXCEPT !.status = "bad"]
                /\ tasks' = tasks \ {t}
                /\ chess' = chess
        /\ UNCHANGED engineVars

\* startNewGame after await board.setPosition(fen): the local outcome is the
\* data of the position, the moves are fetched in the background
NewBoardShown ==
    \E t \in tasks :
        /\ t.kind = "new" /\ t.at = "board" /\ runnable(t)
        /\ trace' = trace
        /\ IF t.id # app.gameId
           THEN /\ tasks' = tasks \ {t}
                /\ app' = app
           ELSE /\ app' = [app EXCEPT
                             !.currentTbData = <<[fen |-> t.fen, wdl |-> app.outcome, moves |-> FALSE]>>,
                             !.status = "evaluate", !.btnGuess = TRUE, !.gameActive = TRUE,
                             !.isUserTurn = TRUE, !.btnUndo = FALSE]
                /\ tasks' = (tasks \ {t}) \cup {Task("new", "fetch", t.id, t.fen, NoFen, app.tbCache)}
        /\ UNCHANGED <<chess, engineVars>>

\* fetchTablebase(fen).then(...) of startNewGame
InitialFetched ==
    \E t \in tasks, ok \in BOOLEAN :
        /\ t.kind = "new" /\ t.at = "fetch" /\ runnable(t)
        /\ t.micro => ok
        /\ trace' = trace
        /\ tasks' = tasks \ {t}
        /\ IF ~ok THEN app' = app
           ELSE IF t.id # app.gameId THEN app' = [app EXCEPT !.tbCache = @ \cup {t.fen}]
           ELSE app' = [app EXCEPT !.tbCache = @ \cup {t.fen},
                                   !.currentTbData = <<[response(t.fen) EXCEPT !.wdl = app.outcome]>>]
        /\ UNCHANGED <<chess, engineVars>>

\* handleGameOver() up to await fetchTablebase(initialFen): the result of
\* the game is read from the board (aux), the starting position is fetched
gameOverTask(a, ch) == Task("over", "fetch", a.gameId, a.initialFen, ch, a.tbCache)

\* the blunder check of handleUserMovePostProcess: the move is looked up in
\* the move list of currentTbData and its category compared with the result
\* of the position; a list that is not the one of the position on the board
\* is taken not to hold the move
failed(a, pre, tag) ==
    /\ a.currentTbData[1].moves /\ a.currentTbData[1].fen = pre
    /\ LET isDrawingForMe == (tag = "slip")
           isLosingForMe == (tag = "blunder")
           prevWdl == a.currentTbData[1].wdl
       IN  \/ prevWdl = 2 /\ (isDrawingForMe \/ isLosingForMe)
           \/ prevWdl = 0 /\ isLosingForMe

\* The board accepts a move of the user in play mode (enableMoveInput),
\* handleUserMove plays it and handleUserMovePostProcess runs up to its first
\* await: board.setPosition after a blunder was taken back, else the request
\* for the new position.
PlayMove ==
    /\ quiet /\ Cardinality(own) < MaxPending
    /\ app.isUserTurn /\ app.gameActive /\ ~app.analysisMode /\ hasMoves(app)
    /\ whiteToMove(chess)
    /\ \E tag \in legal(chess) :
          /\ tag = "final" \/ failed(app, chess, tag) \/ Len(chess.hist) + 2 <= MaxPlies
          /\ IF failed(app, chess, tag)
             THEN /\ app' = [app EXCEPT !.isUserTurn = FALSE, !.status = "thinking",
                                        !.guessLock = TRUE]
                  /\ chess' = chessUndo(chessMove(chess, tag))
                  /\ tasks' = tasks \cup {Task("move", "blunder", app.gameId, chess, NoFen, {})}
                  /\ trace' = trace
             ELSE /\ app' = [app EXCEPT !.isUserTurn = FALSE, !.status = "thinking",
                                        !.currentTbData = <<>>]
                  /\ chess' = chessMove(chess, tag)
                  /\ tasks' = tasks \cup {Task("move", "fetch", app.gameId, chess', NoFen, app.tbCache)}
                  /\ trace' = trace
    /\ UNCHANGED engineVars

\* handleUserMovePostProcess after the blunder was taken back on the board
BlunderShown ==
    \E t \in tasks :
        /\ t.kind = "move" /\ t.at = "blunder" /\ runnable(t)
        /\ tasks' = tasks \ {t}
        /\ IF t.id # app.gameId
           THEN /\ app' = app
                /\ trace' = trace
           ELSE /\ app' = [app EXCEPT
                             !.streak = IF streakOpen(app) THEN 0 ELSE @,
                             !.streakInvalidated = TRUE,
                             !.status = "blunder", !.btnGuess = FALSE,
                             !.gameActive = TRUE, !.isUserTurn = TRUE,
                             !.btnUndo = (chess.hist # <<>>)]
                /\ trace' = IF streakOpen(app) THEN counted(trace) ELSE trace
        /\ UNCHANGED <<chess, engineVars>>

\* handleUserMovePostProcess after await fetchTablebase(fenBeforeFetch): the
\* game is over, or selectComputerMove's move is played and shown
ReplyFetched ==
    \E t \in tasks, ok \in BOOLEAN :
        /\ t.kind = "move" /\ t.at = "fetch" /\ runnable(t)
        /\ t.micro => ok
        /\ trace' = trace
        /\ IF ~ok
           THEN /\ app' = IF t.id # app.gameId THEN app ELSE [app EXCEPT !.status = "network"]
                /\ tasks' = tasks \ {t}
                /\ chess' = chess
           ELSE IF t.id # app.gameId \/ chess # t.fen
           THEN /\ app' = [app EXCEPT !.tbCache = @ \cup {t.fen}]
                /\ tasks' = tasks \ {t}
                /\ chess' = chess
           ELSE LET a == [app EXCEPT !.tbCache = @ \cup {t.fen},
                                     !.currentTbData = <<response(t.fen)>>]
                IN  IF terminal(chess)
                    THEN /\ app' = a
                         /\ tasks' = (tasks \ {t}) \cup {gameOverTask(a, chess)}
                         /\ chess' = chess
                    ELSE /\ app' = a
                         /\ \E tag \in legal(chess) : chess' = chessMove(chess, tag)
                         /\ tasks' = (tasks \ {t}) \cup {Task("move", "board", t.id, chess', NoFen, {})}
        /\ UNCHANGED engineVars

\* handleUserMovePostProcess after the computer's move is shown: the game is
\* over, or the data of the new position is requested
ReplyShown ==
    \E t \in tasks :
        /\ t.kind = "move" /\ t.at = "board" /\ runnable(t)
        /\ trace' = trace
        /\ IF t.id # app.gameId
           THEN /\ tasks' = tasks \ {t}
                /\ app' = app
           ELSE IF terminal(chess)
           THEN /\ tasks' = (tasks \ {t}) \cup {gameOverTask(app, chess)}
                /\ app' = app
           ELSE /\ app' = [app EXCEPT !.currentFen = chess]
                /\ tasks' = (tasks \ {t}) \cup {Task("move", "fetch2", t.id, chess, NoFen, app.tbCache)}
        /\ UNCHANGED <<chess, engineVars>>

\* handleUserMovePostProcess after currentTbData = await fetchTablebase(currentFen):
\* the data is stored before the game is compared, then the user is on turn
NextFetched ==
    \E t \in tasks, ok \in BOOLEAN :
        /\ t.kind = "move" /\ t.at = "fetch2" /\ runnable(t)
        /\ t.micro => ok
        /\ trace' = trace
        /\ tasks' = tasks \ {t}
        /\ IF ~ok
           THEN app' = IF t.id # app.gameId THEN app ELSE [app EXCEPT !.status = "network"]
           ELSE LET a == [app EXCEPT !.tbCache = @ \cup {t.fen},
                                     !.currentTbData = <<response(t.fen)>>]
                IN  IF t.id # app.gameId THEN app' = a
                    ELSE app' = [a EXCEPT !.isUserTurn = TRUE,
                                          !.status = IF app.analysisMode THEN "" ELSE "toMove",
                                          !.btnUndo = @ \/ chess.hist # <<>>]
        /\ UNCHANGED <<chess, engineVars>>

\* handleGameOver after await fetchTablebase(initialFen): the result on the
\* board is compared with the result of the starting position (a draw when
\* the request failed)
GameOverEvaluated ==
    \E t \in tasks, ok \in BOOLEAN :
        /\ t.kind = "over" /\ runnable(t)
        /\ t.micro => ok
        /\ tasks' = tasks \ {t}
        /\ LET v == val(app.outcome, t.aux.hist)
               actualResult == IF terminal(t.aux) /\ v # 0 THEN (IF whiteToMove(t.aux) THEN -1 ELSE 1)
                               ELSE 0
               w == IF ok THEN response(t.fen).wdl ELSE 0
               initialWdl == IF w = 2 THEN 1 ELSE IF w = -2 THEN -1 ELSE 0
               success == app.analysisMode \/ actualResult >= initialWdl
           IN  /\ app' = [app EXCEPT
                            !.tbCache = IF ok THEN @ \cup {t.fen} ELSE @,
                            !.streak = IF ~streakOpen(app) THEN @
                                       ELSE IF success THEN streakUp(app) ELSE 0,
                            !.status = IF success THEN "ok" ELSE "bad",
                            !.streakInvalidated = TRUE, !.gameActive = FALSE,
                            !.isUserTurn = FALSE, !.btnGuess = FALSE]
               /\ trace' = IF streakOpen(app) THEN counted(trace) ELSE trace
        /\ UNCHANGED <<chess, engineVars>>

\* handleGuess(guessWdl): a click on an enabled guess button.  With no data
\* (or no move list) it awaits undoLastMove(false), which returns at once on
\* the same condition, and then gives up when there is still no data.
Guess ==
    /\ quiet /\ app.btnGuess /\ app.gameActive
    /\ \E guessWdl \in {2, 0, -2} :
          IF app.currentTbData = <<>>
          THEN /\ app' = app
               /\ trace' = [trace EXCEPT !.guessedThinking = TRUE]
          ELSE LET correct == (guessWdl = app.currentTbData[1].wdl)
               IN  /\ app' = [app EXCEPT
                                !.btnGuess = FALSE,
                                !.streak = IF ~streakOpen(app) THEN @
                                           ELSE IF correct THEN streakUp(app) ELSE 0,
                                !.streakInvalidated = TRUE,
                                !.guessLock = IF correct THEN @ ELSE TRUE,
                                !.status = IF correct THEN "right" ELSE "wrong"]
                   /\ trace' = IF streakOpen(app) THEN counted(trace) ELSE trace
    /\ UNCHANGED <<chess, tasks, engineVars>>

\* undoLastMove up to await board.setPosition: nothing without a move list,
\* else the user's move is taken back, with the computer's reply if it was played
UndoClick ==
    /\ quiet /\ app.btnUndo /\ Cardinality(own) < MaxPending
    /\ trace' = trace
    /\ IF ~hasMoves(app)
       THEN UNCHANGED <<app, chess, tasks>>
       ELSE /\ chess' = IF whiteToMove(chess) THEN chessUndo(chessUndo(chess)) ELSE chessUndo(chess)
            /\ app' = [app EXCEPT !.currentFen = chess']
            /\ tasks' = tasks \cup {Task("undo", "board", app.gameId, chess', NoFen, {})}
    /\ UNCHANGED engineVars

\* undoLastMove after the board is shown, up to await fetchTablebase(currentFen)
UndoShown ==
    \E t \in tasks :
        /\ t.kind = "undo" /\ t.at = "board" /\ runnable(t)
        /\ trace' = trace
        /\ app' = [app EXCEPT !.guessLock = FALSE]
        /\ tasks' = (tasks \ {t}) \cup {Task("undo", "fetch", t.id, app.currentFen, NoFen, app.tbCache)}
        /\ UNCHANGED <<chess, engineVars>>

\* undoLastMove after the data arrived: the user is on turn
UndoFetched ==
    \E t \in tasks, ok \in BOOLEAN :
        /\ t.kind = "undo" /\ t.at = "fetch" /\ runnable(t)
        /\ t.micro => ok
        /\ trace' = trace
        /\ tasks' = tasks \ {t}
        /\ app' = IF ~ok THEN app
                  ELSE [app EXCEPT !.tbCache = @ \cup {t.fen},
                                   !.currentTbData = <<response(t.fen)>>,
                                   !.gameActive = TRUE, !.isUserTurn = TRUE,
                                   !.status = IF app.analysisMode THEN "analysis" ELSE "toMove",
                                   !.btnUndo = (chess.hist # <<>>)]
        /\ UNCHANGED <<chess, engineVars>>

\* the analysis button, once a position was loaded, up to await
\* fetchTablebase(currentFen)
GodClick ==
    /\ quiet /\ chess.g >= 1 /\ ~app.analysisMode /\ Cardinality(own) < MaxPending
    /\ app' = [app EXCEPT !.analysisMode = TRUE, !.guessLock = FALSE, !.status = "loading",
                          !.currentFen = chess]
    /\ tasks' = tasks \cup {Task("god", "fetch", app.gameId, chess, NoFen, app.tbCache)}
    /\ trace' = trace
    /\ UNCHANGED <<chess, engineVars>>

\* the analysis button after the data arrived
GodFetched ==
    \E t \in tasks, ok \in BOOLEAN :
        /\ t.kind = "god" /\ runnable(t)
        /\ t.micro => ok
        /\ trace' = trace
        /\ tasks' = tasks \ {t}
        /\ app' = IF ~ok THEN [app EXCEPT !.status = "network"]
                  ELSE [app EXCEPT !.tbCache = @ \cup {t.fen},
                                   !.currentTbData = <<response(t.fen)>>,
                                   !.gameActive = TRUE, !.isUserTurn = TRUE,
                                   !.streakInvalidated = TRUE, !.status = "analysis",
                                   !.btnGuess = FALSE]
        /\ UNCHANGED <<chess, engineVars>>

NextTrainer ==
    \/ NewGameClick \/ PositionGenerated \/ NewBoardShown \/ InitialFetched
    \/ PlayMove \/ BlunderShown \/ ReplyFetched \/ ReplyShown \/ NextFetched
    \/ GameOverEvaluated
    \/ Guess \/ UndoClick \/ UndoShown \/ UndoFetched
    \/ GodClick \/ GodFetched

SpecTrainer == InitTrainer /\ [][NextTrainer]_vars

\* The event loop resumes every suspended function: a request is answered
\* or fails, an animation ends.  The user is free never to click again.
Resume ==
    \/ PositionGenerated \/ NewBoardShown \/ InitialFetched
    \/ BlunderShown \/ ReplyFetched \/ ReplyShown \/ NextFetched
    \/ GameOverEvaluated \/ UndoShown \/ UndoFetched \/ GodFetched

SpecTrainerFair == SpecTrainer /\ WF_vars(Resume)

\* ================================================================ the service worker
\* sw.js answers the page's requests.  A request is its path and the v of
\* its query; the server publishes one version of the data at a time, the
\* manifest of version n naming the data file of version n, and a body is
\* the version it was served from.  The Cache Storage of the worker holds
\* pairs of a request and a body; the HTTP cache is not modelled, the page
\* asks for the manifest with cache: "no-store".
MaxVersions == 3

ManifestRequest == [path |-> "data/manifest.json", v |-> 0]
Files == {"data/kp_k.txt", "data/kr_k.txt"}
DataRequest(filename, hash) == [path |-> filename, v |-> hash]
PageRequest == [path |-> "index.html", v |-> 0]

\* url.pathname.includes("/data/") && (endsWith(".txt") || endsWith(".json"))
cacheFirst(req) == req.path \in {"data/manifest.json"} \cup Files

\* cache.match(event.request)
match(cache, req) == {e \in cache : e[1] = req}

\* the fetch event listener: what the page gets for req and the worker's
\* cache afterwards; a request the worker does not answer goes to the network
onFetch(w, req) ==
    LET found == match(w.cache, req)
        net == [asked |-> TRUE, hit |-> found # {}, online |-> w.online,
                from |-> IF w.online THEN "network" ELSE "error",
                body |-> IF w.online THEN w.server ELSE 0]
    IN  IF ~cacheFirst(req) THEN [answer |-> net, cache |-> w.cache]
        ELSE IF found # {}
        THEN [answer |-> [asked |-> TRUE, hit |-> TRUE, online |-> w.online, from |-> "cache",
                          body |-> (CHOOSE e \in found : TRUE)[2]],
              cache |-> w.cache]
        ELSE [answer |-> net,
              cache |-> IF w.online THEN w.cache \cup {<<req, w.server>>} ELSE w.cache]

InitWorker ==
    /\ key = "KP_K" /\ tbData = [ok |-> FALSE, moves |-> <<>>] /\ pc = "done"
    /\ cand = <<>> /\ target = "" /\ C = <<>> /\ stage = NoStage /\ phase = "" /\ gone = {}
    /\ polRet = Null /\ threw = FALSE /\ usedDefault = FALSE /\ escaped = FALSE /\ result = Null
    /\ oracle = Free /\ run = 0 /\ firstCall = NoCall /\ probe = NoProbe /\ scan = NoScan
    /\ app = NoApp /\ chess = NoFen /\ tasks = {} /\ trace = NoTrace
    /\ sw = [NoWorker EXCEPT !.server = 1, !.online = TRUE]

workerFixed == <<key, tbData, pc, policyVars, callVars, oracle, run, firstCall, probe, scan,
                 app, chess, tasks, trace>>

\* a new version of the data is published
Deploy ==
    /\ sw.server < MaxVersions
    /\ sw' = [sw EXCEPT !.server = @ + 1]
    /\ UNCHANGED workerFixed

\* the network comes or goes
Connection ==
    /\ sw' = [sw EXCEPT !.online = ~@]
    /\ UNCHANGED workerFixed

\* the page is loaded again: MANIFEST and mem start empty, the page itself
\* is not answered by the worker
Reload ==
    /\ onFetch(sw, PageRequest).answer.from = "network"
    /\ sw' = [sw EXCEPT !.MANIFEST = 0, !.mem = {}]
    /\ UNCHANGED workerFixed

\* loadDense(filename): getManifest() fetches the manifest unless the
\* session has it, buildDataUrl names the versioned file, which is fetched
\* unless the session has it
loadDense(filename) ==
    LET m == IF sw.MANIFEST # 0
             THEN [answer |-> sw.manifest, cache |-> sw.cache]
             ELSE onFetch(sw, ManifestRequest)
        w == [sw EXCEPT !.cache = m.cache, !.manifest = m.answer]
    IN  /\ IF sw.MANIFEST = 0 /\ m.answer.from = "error"
           THEN sw' = w
           ELSE LET hash == IF sw.MANIFEST # 0 THEN sw.MANIFEST ELSE m.answer.body
                    url == DataRequest(filename, hash)
                    d == onFetch(w, url)
                IN  IF url \in sw.mem
                    THEN sw' = [w EXCEPT !.MANIFEST = hash]
                    ELSE sw' = [w EXCEPT !.MANIFEST = hash, !.cache = d.cache, !.data = d.answer,
                                         !.mem = IF d.answer.from = "error" THEN @ ELSE @ \cup {url}]
        /\ UNCHANGED workerFixed

loadData == \E filename \in Files : loadDense(filename)

NextWorker == Deploy \/ Connection \/ Reload \/ loadData

SpecWorker == InitWorker /\ [][NextWorker]_vars

\* ================================================================ properties
moveClass(m) == getMoverResult(m.category)
hasClass(o) == \E i \in 1..Len(tbData.moves) : moveClass(tbData.moves[i]) = o
bestClass == IF hasClass("WIN") THEN "WIN" ELSE IF hasClass("DRAW") THEN "DRAW" ELSE "LOSS"
candHas(o) == \E i \in 1..Len(cand) : cand[i].outcome = o
returned == pc = "done" /\ tbData.ok /\ Len(tbData.moves) > 0

\* d1 <= d2 for normalized distances, a missing distance counting as +infinity
distLeq(d1, d2) == d2 = Null \/ (d1 # Null /\ d1[1] <= d2[1])

\* The known distances of the candidates, and the upper ends x of the pairs
\* (x, y) that are adjacent in descending order with x - y >= GAP_BREAK.
knownDistances == {cand[i].dtm[1] : i \in {j \in 1..Len(cand) : cand[j].dtm # Null}}
adjacentGap(x, y) ==
    /\ x \in knownDistances /\ y \in knownDistances
    /\ x - y >= GAP_BREAK
    /\ \A z \in knownDistances : ~(y < z /\ z < x)
gapTops == {x \in knownDistances : \E y \in knownDistances : adjacentGap(x, y)}
firstGapTop == CHOOSE x \in gapTops : \A z \in gapTops : z <= x

\* The class of a label when only the exact words loss, win and draw count.
exactClass(category) ==
    LET c == toLowerCase(IF category = Undefined THEN <<>> ELSE category)
    IN  IF c = S_loss THEN "WIN" ELSE IF c = S_win THEN "LOSS" ELSE "DRAW"

\* C1, as the specification states it: for every non-empty candidate list,
\* however the policy ended, the move selectComputerMove returns is of the
\* best class present in the list.
C1_OutcomeSoundness ==
    returned => result # Null /\ moveClass(result[1]) = bestClass

\* C1, amended: the returned move is of the best class present whenever it is
\* the move of a specialized policy; when the default policy decided (no
\* policy registered for the key, or the policy threw) it is of the class of
\* the first listed candidate.
C1_SoundUnlessDefault ==
    returned =>
        /\ result # Null
        /\ (key \in Registered /\ ~usedDefault) => moveClass(result[1]) = bestClass
        /\ (key \notin Registered \/ usedDefault) =>
                moveClass(result[1]) = moveClass(tbData.moves[1])

\* C1: a specialized policy threw on a list whose first candidate loses while
\* a drawing candidate is listed later, and the losing move was returned.
C1_Witness ==
    /\ returned /\ key \in Registered /\ threw /\ usedDefault
    /\ moveClass(tbData.moves[1]) = "LOSS" /\ bestClass = "DRAW"
    /\ moveClass(result[1]) = "LOSS"

C3_Totality ==
    pc = "done" =>
        /\ ~escaped
        /\ result = Null <=> (~tbData.ok \/ Len(tbData.moves) = 0)

\* C3: the policy threw and selectComputerMove returned a move all the same.
C3_Witness ==
    pc = "done" /\ threw /\ ~escaped /\ result # Null /\ Len(tbData.moves) > 1

\* C4: with a WIN candidate in the list, the policy returns a WIN candidate
\* whose normalized distance is minimal (missing = +infinity) and whose
\* identifier is the smallest among the WIN candidates of that distance.
C4_WinMinimality ==
    (key \in Registered /\ target = "WIN" /\ pc \in {"check", "done"}) =>
        \E i \in 1..Len(cand) :
            /\ cand[i].outcome = "WIN"
            /\ polRet = <<tbData.moves[i]>>
            /\ \A j \in 1..Len(cand) :
                  cand[j].outcome = "WIN" =>
                      /\ distLeq(cand[i].dtm, cand[j].dtm)
                      /\ cand[j].dtm = cand[i].dtm =>
                            localeCompare(cand[i].uci, cand[j].uci) <= 0

\* C4: three WIN candidates, the first without a distance, the two others at
\* the same distance; the last listed has the smallest identifier and is returned.
C4_Witness ==
    /\ pc = "check" /\ target = "WIN" /\ Len(cand) = 3
    /\ cand[1].dtm = Null /\ cand[2].dtm # Null /\ cand[2].dtm = cand[3].dtm
    /\ localeCompare(cand[3].uci, cand[2].uci) < 0
    /\ polRet = <<tbData.moves[3]>>

\* C5, as the specification states it: in every policy a candidate flagged as
\* checkmate gets distance 0 whether or not a dtm is supplied, and a supplied
\* dtm is normalized to its magnitude.
C5_DistanceNormalization ==
    \A i \in 1..Len(cand) :
        LET m == tbData.moves[i]
        IN  /\ m.checkmate => cand[i].dtm = <<0>>
            /\ (~m.checkmate /\ m.dtm # Null) => cand[i].dtm = <<Abs(m.dtm[1])>>

\* C6: all candidates are LOSS and their known distances have an adjacent
\* pair x > y with x - y >= GAP_BREAK; x being the upper end of the first such
\* pair, the working set after the distance filter is the set of candidates
\* with distance >= x, it stays within that set, and the move the policy
\* returns has distance >= x.
C6_AntiCollapse ==
    (target = "LOSS" /\ pc # "loss" /\ gapTops # {}) =>
        /\ \A i \in 1..Len(C) : C[i].dtm # Null /\ C[i].dtm[1] >= firstGapTop
        /\ stage.name = "lossDtm" =>
              UcisOf(stage.after) =
                  {cand[i].uci : i \in {j \in 1..Len(cand) :
                       cand[j].dtm # Null /\ cand[j].dtm[1] >= firstGapTop}}
        /\ polRet # Null =>
              \E i \in 1..Len(cand) :
                  /\ polRet = <<tbData.moves[i]>>
                  /\ cand[i].dtm # Null /\ cand[i].dtm[1] >= firstGapTop

\* C6: distances 2*GAP_BREAK, GAP_BREAK + 1 and 1: the first gap (GAP_BREAK - 1)
\* does not cut, the second (GAP_BREAK) does, two candidates are kept and the
\* policy has returned one of them.
C6_Witness ==
    /\ target = "LOSS" /\ pc = "check" /\ polRet # Null
    /\ knownDistances = {2 * GAP_BREAK, GAP_BREAK + 1, 1}
    /\ firstGapTop = GAP_BREAK + 1
    /\ stage.name = "lossDtm" /\ Len(stage.after) = 2

\* C7, as the specification states it: the distance filter removes a LOSS
\* candidate with a known distance only if it lies below an adjacent gap of
\* at least GAP_BREAK; without such a gap every candidate stays.
C7_PlateauKept ==
    stage.name = "lossDtm" =>
        \A i \in 1..Len(stage.before) :
            LET c == stage.before[i]
            IN  (c.dtm # Null /\ c.uci \notin UcisOf(stage.after)) =>
                    \E x \in knownDistances, y \in knownDistances :
                        adjacentGap(x, y) /\ c.dtm[1] <= y

\* C8, as the specification states it: loss is WIN, win is LOSS, draw is DRAW
\* (in any case) and every other label, missing or empty included, is DRAW.
C8_LabelClassification ==
    \A i \in 1..Len(cand) : cand[i].outcome = exactClass(tbData.moves[i].category)

\* C9: the target class is WIN if a candidate is WIN, else DRAW if one is
\* DRAW, else LOSS; from the gate on the working set is non-empty and holds
\* candidates of the target class only, and so is the move the policy returns.
C9_SoundnessGate ==
    (key \in Registered /\ target # "") =>
        /\ target = (IF candHas("WIN") THEN "WIN" ELSE IF candHas("DRAW") THEN "DRAW" ELSE "LOSS")
        /\ C # <<>>
        /\ \A i \in 1..Len(C) : C[i].outcome = target /\ cand[C[i].original] = C[i]
        /\ polRet # Null => moveClass(polRet[1]) = target

\* C9: the early return: no candidate of a DRAW target could be analysed, a
\* losing candidate is listed first, and the policy returned a drawing move.
C9_Witness ==
    /\ pc = "check" /\ ~threw /\ target = "DRAW" /\ stage = NoStage
    /\ cand[1].outcome = "LOSS"
    /\ polRet # Null /\ moveClass(polRet[1]) = "DRAW"

\* C10: after every filter stage the working set is non-empty and a subset of
\* the set before the stage; it is the sub-sequence that satisfies the stage's
\* predicate when that is non-empty, and the set before the stage otherwise.
C10_NonEmptyingCascade ==
    stage # NoStage =>
        LET kept == SelectSeq(stage.before, LAMBDA c : c.uci \in stage.sat)
        IN  /\ stage.after # <<>>
            /\ SetOf(stage.after) \subseteq SetOf(stage.before)
            /\ kept # <<>> => stage.after = kept
            /\ kept = <<>> => stage.after = stage.before
            /\ (pc = "analyze" \/ (stage.name # "lossDtm" /\ pc \notin {"check", "done"})) =>
                  C = stage.after

\* C10: no candidate satisfied the usefulness predicate and both candidates stayed.
C10_Witness ==
    /\ stage.name = "Useful" /\ stage.sat = {}
    /\ Len(stage.before) >= 2 /\ stage.after = stage.before /\ C = stage.before

\* The policy returned before any cascade stage: no candidate was analysed.
unrankedReturn ==
    /\ pc \in {"check", "done"} /\ ~threw /\ target \in {"DRAW", "LOSS"}
    /\ stage.name \in {"none", "lossDtm"}

\* The candidates of the target class, after the LOSS distance filter when the target is LOSS.
outcomeFiltered ==
    {i \in 1..Len(cand) :
        /\ cand[i].outcome = target
        /\ (target = "LOSS" => cand[i].uci \in UcisOf(stage.after))}

\* C11: when no candidate yields a feature vector, the policy returns the
\* first candidate, in the order of the list, of the outcome-filtered working
\* set; it is listed, of the target class, and selectComputerMove returns it.
C11_UnrankedReturn ==
    unrankedReturn =>
        \E i \in outcomeFiltered :
            /\ \A j \in outcomeFiltered : i <= j
            /\ polRet = <<tbData.moves[i]>>
            /\ moveClass(tbData.moves[i]) = target
            /\ pc = "done" => result = polRet /\ ~usedDefault

\* C11: all candidates lose, the distance filter removed the first listed one,
\* no candidate was analysed and the second listed one was returned.
C11_Witness ==
    /\ unrankedReturn /\ pc = "done" /\ target = "LOSS"
    /\ 1 \notin outcomeFiltered /\ 2 \in outcomeFiltered
    /\ result = <<tbData.moves[2]>>

\* The ordered constraints of the KR_KRP cascade.
krKrpConstraints == <<"R_hang", "PawnKingTakeSafe", "PawnTakeSafe", "Trade", "Useful">>

passes(u, k) == krKrpConstraints[k] \in oracle.answer[u].sat

\* C19: the move KR_KRP selects is lexicographically best over the ordered
\* constraints: for every analysed candidate c and every k, if c passes
\* constraint k and agrees with the selected move on constraints 1..k-1, the
\* selected move passes constraint k.
C19_StrictPriority ==
    (key = "KR_KRP" /\ oracle.fixed /\ pc = "done" /\ ~threw /\ stage # NoStage
       /\ stage.name # "lossDtm") =>
        /\ result # Null
        /\ \A c \in {u \in UcisOf(cand) : oracle.answer[u].kind = "features"} :
              \A k \in 1..Len(krKrpConstraints) :
                  (/\ passes(c, k)
                   /\ \A j \in 1..(k - 1) : passes(c, j) = passes(result[1].uci, j))
                      => passes(result[1].uci, k)

\* C19: the first listed candidate hangs the rook and is useful, the second
\* keeps the rook and drifts: the second is selected although its identifier
\* sorts later.
C19_Witness ==
    /\ key = "KR_KRP" /\ oracle.fixed /\ pc = "done" /\ Len(cand) = 2
    /\ ~passes(cand[1].uci, 1) /\ passes(cand[1].uci, 5)
    /\ passes(cand[2].uci, 1) /\ ~passes(cand[2].uci, 5)
    /\ localeCompare(cand[1].uci, cand[2].uci) < 0
    /\ result = <<tbData.moves[2]>>

\* What the filter cascade leaves of cs, run from stage st up to the first
\* stage of stop.
RECURSIVE survive(_, _, _)
survive(st, cs, stop) ==
    IF st \in stop THEN cs
    ELSE LET sat == {u \in UcisOf(cs) : st \in oracle.answer[u].sat}
         IN  survive(nextStage(key, target, st, sat # {}), keepIfAny(cs, sat), stop)

survivors(stop) ==
    survive(firstStage(key),
            SelectSeq(cand, LAMBDA c : c.outcome = target
                                       /\ oracle.answer[c.uci].kind = "features"),
            stop)

holdsOpposition(u) == oracle.answer[u].rank.oppositionGoodForBlack

\* two DRAW king moves without distance, exactly one of them taking the opposition
oppositionScenario ==
    /\ key = "KP_KP" /\ oracle.fixed /\ pc = "done" /\ target = "DRAW"
    /\ Len(tbData.moves) = 2
    /\ \A i \in 1..2 : oracle.answer[tbData.moves[i].uci] \in kpKpKingMoves
                       /\ tbData.moves[i].dtm = Null
    /\ \E i \in 1..2 : holdsOpposition(tbData.moves[i].uci)
    /\ \E i \in 1..2 : ~holdsOpposition(tbData.moves[i].uci)

oppositionMove == CHOOSE m \in SetOf(tbData.moves) : holdsOpposition(m.uci)

\* C16 as stated: of two DRAW king moves without distance, exactly one of
\* which takes the direct opposition, the engine selects the one that takes it.
C16_OppositionSelected ==
    oppositionScenario => result = <<oppositionMove>>

\* C16: in that scenario the engine selects the opposition move whenever it
\* survives the capture-avoidance filters, which come before the opposition
\* preference; when it alone lets the white king take the pawn, the other
\* move is selected.
C16_OppositionAmongSafe ==
    oppositionScenario =>
        IF oppositionMove.uci \in UcisOf(survivors({"Useful"}))
        THEN result = <<oppositionMove>>
        ELSE result # Null /\ result # <<oppositionMove>>

\* C16: the opposition move is listed second, its identifier sorts later and
\* the other move approaches the pawn; it is selected.
C16_Witness ==
    /\ oppositionScenario
    /\ holdsOpposition(tbData.moves[2].uci)
    /\ localeCompare(tbData.moves[1].uci, tbData.moves[2].uci) < 0
    /\ oracle.answer[tbData.moves[1].uci].rank.kingCloserToBP
    /\ result = <<tbData.moves[2]>>

\* The phase the fixed rules engine reports for a candidate.
phaseOf(u) ==
    IF key \in {"KP_KP", "KR_KRP"}
    THEN (IF "phaseC" \in oracle.answer[u].sat THEN "C"
          ELSE IF "phaseB" \in oracle.answer[u].sat THEN "B" ELSE "A")
    ELSE oracle.answer[u].rank.phase

\* C over B over A over no pawn
urgency(ph) == CASE ph = "C" -> 3 [] ph = "B" -> 2 [] ph = "A" -> 1 [] OTHER -> 0

mostUrgentOf(cs) == \A i \in 1..Len(cs) : urgency(phaseOf(result[1].uci)) >= urgency(phaseOf(cs[i].uci))

\* the stages that follow the hard-constraint and usefulness filters
afterUsefulness == {"phaseC", "pawnPoisoned", "keepPawn", "rank"}

policyRanked == oracle.fixed /\ pc = "done" /\ ~usedDefault /\ result # Null

\* C18 as stated: in every policy and in both contexts the selected move has
\* the most urgent phase found among the candidates that survive the
\* hard-constraint and usefulness filters.
C18_PhaseFirst ==
    policyRanked => mostUrgentOf(survivors(afterUsefulness))

\* C18: the phase preference comes first in KP_KP and KR_KRP (a filter, both
\* contexts) and in the DRAW context of KBP_KB and KRP_KR (candidates that
\* keep the pawn are kept, phase is the first comparator key among them);
\* in KR_KP it only decides among the candidates left by the poisoned-pawn
\* and rook-threat preference filters.
C18_PhaseWhereFiltered ==
    policyRanked =>
        /\ (key \in {"KP_KP", "KR_KRP"} \/ (key \in {"KBP_KB", "KRP_KR"} /\ target = "DRAW"))
              => mostUrgentOf(survivors(afterUsefulness))
        /\ key = "KR_KP" => mostUrgentOf(survivors({"rank"}))

\* C18: a pawn push (phase C) listed second, with the later identifier, is
\* selected over a king move (phase B) that takes the opposition.
C18_Witness ==
    /\ policyRanked /\ key = "KP_KP" /\ Len(tbData.moves) = 2
    /\ Len(survivors(afterUsefulness)) = 2
    /\ phaseOf(tbData.moves[1].uci) = "B" /\ holdsOpposition(tbData.moves[1].uci)
    /\ phaseOf(tbData.moves[2].uci) = "C"
    /\ localeCompare(tbData.moves[1].uci, tbData.moves[2].uci) < 0
    /\ result = <<tbData.moves[2]>>

sameButDtm(ms, ns) ==
    /\ Len(ms) = Len(ns)
    /\ \A i \in 1..Len(ms) : [ms[i] EXCEPT !.dtm = Null] = [ns[i] EXCEPT !.dtm = Null]

drawCandidates == SelectSeq(cand, LAMBDA c : c.outcome = "DRAW")

\* C17: in a DRAW context no distance filter runs, every DRAW candidate
\* enters feature extraction, and an invocation on the same list with other
\* distances returns the same move (of the list it was given).
C17_DrawIgnoresDistances ==
    target = "DRAW" =>
        /\ pc # "loss" /\ stage.name # "lossDtm"
        /\ pc = "analyze" => UcisOf(C) = UcisOf(drawCandidates) /\ Len(C) = Len(drawCandidates)
        /\ (run >= 2 /\ pc = "done" /\ sameButDtm(tbData.moves, firstCall.moves)) =>
              /\ result # Null /\ firstCall.result # Null
              /\ result[1].uci = firstCall.result[1].uci

\* C17: the second invocation gets both DRAW candidates with a distance the
\* first did not have and the policy ranks them to the same, second listed, move.
C17_Witness ==
    /\ target = "DRAW" /\ run = 2 /\ pc = "done" /\ ~usedDefault /\ stage # NoStage
    /\ Len(tbData.moves) = 2 /\ Len(drawCandidates) = 2
    /\ \A i \in 1..2 : tbData.moves[i].dtm # firstCall.moves[i].dtm
    /\ sameButDtm(tbData.moves, firstCall.moves)
    /\ result = <<tbData.moves[2]>>
    /\ result[1].uci = firstCall.result[1].uci

listed(ret) == \E i \in 1..Len(tbData.moves) : tbData.moves[i].uci = ret[1].uci

\* C13: on a non-empty list selectComputerMove returns the default policy's
\* choice when no policy is registered for the key, when the policy throws,
\* returns nothing or returns a move whose identifier is not listed; in every
\* other case it returns the policy's move unchanged.
C13_FallbackTriggers ==
    (pc = "done" /\ tbData.ok /\ Len(tbData.moves) > 0) =>
        IF key \notin Registered \/ threw \/ polRet = Null \/ ~listed(polRet)
        THEN result = defaultPolicy(tbData)
        ELSE result = polRet

\* C13: the registered policy returned a move that is not listed and the
\* default policy's choice, another move, is returned.
C13_Witness ==
    /\ pc = "done" /\ key \in Registered /\ ~threw /\ polRet # Null
    /\ ~listed(polRet)
    /\ result = defaultPolicy(tbData) /\ result # polRet
    /\ Len(tbData.moves) >= 2

moverWdl(m) == tbMoveCategoryToMoverWdl(m.category)

\* the positions of the non-capturing DRAW moves in the oracle's list
quietDraws == {i \in 1..Len(tbData.moves) : moverWdl(tbData.moves[i]) = 0
                                            /\ isNonCapture(tbData.moves[i])}

defaultDecided == pc = "done" /\ tbData.ok /\ Len(tbData.moves) > 0
                  /\ (key \notin Registered \/ usedDefault)

\* C14: when the default policy decides, it returns the first listed move,
\* except when that move is a mover DRAW and a DRAW move is a non-capture:
\* then it returns the first non-capturing DRAW move of the list.  The move
\* returned is of the class of the first listed move.
C14_DefaultPolicy ==
    defaultDecided =>
        /\ result # Null
        /\ result[1] = IF moverWdl(tbData.moves[1]) = 0 /\ quietDraws # {}
                       THEN tbData.moves[CHOOSE i \in quietDraws : \A j \in quietDraws : i <= j]
                       ELSE tbData.moves[1]
        /\ moverWdl(result[1]) = moverWdl(tbData.moves[1])

\* C14: the first listed move is a capturing DRAW, a later one a quiet DRAW,
\* and the later one is returned.
C14_Witness ==
    /\ defaultDecided
    /\ moverWdl(tbData.moves[1]) = 0 /\ ~isNonCapture(tbData.moves[1])
    /\ \E i \in 2..Len(tbData.moves) : result = <<tbData.moves[i]>> /\ i \in quietDraws

\* The final comparator of the policy, on the candidates a and b with the
\* features the fixed rules engine answers.
compare(a, b) ==
    CASE key = "KP_KP" -> kpKpCompare(target, a, b)
      [] key = "KR_KRP" -> krKrpCompare(target, phase, a, b)
      [] key = "KBP_KB" -> kbpKbCompare(target, a, b)
      [] key = "KR_KP" -> krKpCompare(a, b)
      [] key = "KRP_KR" -> krpKrCompare(target, a, b)

\* the candidates that reached the final ranking, with their features
ranked ==
    SetOf(withFeatures(C, [u \in UcisOf(C) |-> oracle.answer[u].rank]))

\* C15 as stated: the comparator of the final ranking is a strict total order
\* over the ranked candidates (antisymmetric, transitive, 0 only for equal
\* identifiers) and no ranked candidate is ordered strictly before the
\* selected move.
C15_TotalRanking ==
    (oracle.fixed /\ pc = "done" /\ ~usedDefault /\ stage # NoStage /\ stage.name # "lossDtm") =>
        /\ \A a, b \in ranked :
              /\ (compare(a, b) < 0) = (compare(b, a) > 0)
              /\ compare(a, b) = 0 => a.uci = b.uci
        /\ \A a, b, c \in ranked :
              (compare(a, b) < 0 /\ compare(b, c) < 0) => compare(a, c) < 0
        /\ \A b, sel \in ranked :
              (sel.uci = result[1].uci /\ b.uci # sel.uci) => compare(sel, b) < 0

\* C20: every probe move played is undone once: the stack holds the
\* candidate alone between probes, the candidate and one probe while a
\* capture is examined, one more inside the nested loop; when the features
\* after the loops are read, the position is the one right after the
\* candidate, played on the pre-move position, and as many moves have been
\* undone as were played.
C20_PairedRollback ==
    /\ probe.at \in {"loop", "features"} =>
          probe.sim = <<C[probe.i].uci>> /\ probe.applied = probe.undone
    /\ probe.at \in {"undo", "reply"} =>
          probe.sim = <<C[probe.i].uci, "w">> /\ probe.applied = probe.undone + 1
    /\ probe.at = "replyUndo" =>
          probe.sim = <<C[probe.i].uci, "w", "b">> /\ probe.applied = probe.undone + 2

\* C20: the second candidate's features are read after a nested probe was
\* played and undone.
C20_Witness ==
    /\ probe.at = "features" /\ probe.i = 2 /\ key = "KR_KRP"
    /\ probe.applied >= 3 /\ probe.undone = probe.applied
    /\ probe.sim = <<C[2].uci>>

\* ------------------------------------------------------------------ C21
\* The candidates the extractor is called on: the target class, after the
\* anti-collapse filter in a LOSS context.
workingSet ==
    IF target = "LOSS" THEN lossFilter(targetSet(cand, target)) ELSE targetSet(cand, target)

\* The candidates of the working set whose simulation the rules engine
\* rejected: no vector, or an exception.
rejected == {u \in UcisOf(workingSet) : oracle.answer[u].kind # "features"}

\* C21: when the rules engine rejects the simulation of a candidate, only that
\* candidate is left out: as long as another candidate of the working set was
\* analysed, the move returned is an analysed one, selected by the specialized
\* policy; a rejected candidate is returned only when all of them failed.
C21_IsolatedFailure ==
    (returned /\ oracle.fixed /\ key \in Registered /\ target \in {"DRAW", "LOSS"})
        => (rejected # UcisOf(workingSet)
                => /\ result[1].uci \notin rejected
                   /\ ~usedDefault)

\* ------------------------------------------------------------------ C22
\* C22: the capture-probe features do not depend on the order of the
\* captures: once the loop is over, safeKingCaptureExists (KR_KP) tells
\* whether some king capture of the pawn is safe, and bishopTradeOffered
\* (KBP_KB) whether some bishop capture can be recaptured.
C22_OrderIndependent ==
    scan.at = "done" =>
        /\ key = "KR_KP" =>
              scan.flags.safeKingCaptureExists
                  = (\E i \in 1..Len(scan.moves) :
                        scan.moves[i].piece = "k" /\ ~scan.moves[i].reply)
        /\ key = "KBP_KB" =>
              scan.flags.bishopTradeOffered
                  = (\E i \in 1..Len(scan.moves) :
                        scan.moves[i].piece = "b" /\ scan.moves[i].reply)

\* ------------------------------------------------------------------ C23
\* C23: with distinct identifiers and every candidate analysed, the move
\* selected does not depend on the order of the candidate list: the
\* invocation on a permutation of the list returns the move of the first
\* invocation.
C23_OrderIndependence ==
    (run = 2 /\ pc = "done") => result = firstCall.result

\* ------------------------------------------------------------------ C24
\* C24: in a LOSS context with at least one known distance, the distance
\* filter removes every candidate whose distance is missing, none of them is
\* in the working set afterwards and the policy returns none of them; with
\* no known distance the filter leaves the working set as it is.
C24_MissingDistance ==
    (target = "LOSS" /\ pc # "loss") =>
        IF knownDistances # {}
        THEN /\ \A i \in 1..Len(C) : C[i].dtm # Null
             /\ stage.name = "lossDtm" =>
                   \A i \in 1..Len(stage.after) : stage.after[i].dtm # Null
             /\ polRet # Null =>
                   \E i \in 1..Len(cand) : polRet = <<tbData.moves[i]>> /\ cand[i].dtm # Null
        ELSE stage.name = "lossDtm" => stage.after = stage.before /\ stage.before = cand

\* C24: the first listed candidate has no distance, another one has, and the
\* policy has ranked the remaining candidates and returned one of them.
C24_Witness ==
    /\ target = "LOSS" /\ pc = "check" /\ polRet # Null /\ ~threw
    /\ stage # NoStage /\ stage.name # "lossDtm"
    /\ cand[1].dtm = Null
    /\ \E i \in 1..Len(cand) : cand[i].dtm # Null

\* ------------------------------------------------------------------ C25
\* C25: in play mode a move of the user that worsens the result of the
\* position never stays on the board: the step that plays it takes it back
\* and issues no tablebase request, only the board is redrawn, so no reply
\* is played to it; when the redrawn board is shown the user is on turn in
\* the position before the move, the game is active and no part of the move
\* is left waiting.
C25_BlunderTakenBack ==
    [][ /\ \A tag \in {"slip", "blunder"} : chess' # chessMove(chess, tag)
        /\ \A t \in tasks' \ tasks :
              t.at = "blunder" => /\ chess' = chess /\ t.fen = chess
                                  /\ tasks' \ tasks = {t}
                                  /\ app'.currentTbData = app.currentTbData
        /\ \A t \in tasks \ tasks' :
              (t.at = "blunder" /\ t.id = app.gameId) =>
                  /\ app'.isUserTurn /\ app'.gameActive
                  /\ chess' = t.fen /\ whiteToMove(chess')
                  /\ \A u \in tasks' : u.kind # "move" \/ u.id # app.gameId
      ]_vars

\* ------------------------------------------------------------------ C26
\* C26: a continuation of a function that was called during an earlier game
\* (its game is not the one being played when it resumes) changes none of
\* streak, streakInvalidated, gameActive, isUserTurn, currentTbData and
\* status.
C26_StaleInert ==
    [][ (\E t \in tasks \ tasks' : t.id # app.gameId) =>
            /\ app'.streak = app.streak
            /\ app'.streakInvalidated = app.streakInvalidated
            /\ app'.gameActive = app.gameActive
            /\ app'.isUserTurn = app.isUserTurn
            /\ app'.currentTbData = app.currentTbData
            /\ app'.status = app.status
      ]_vars

C28_GuessWhileThinking ==
    [][ (trace'.guessedThinking /\ ~trace.guessedThinking) =>
            /\ chess' = chessUndo(chess)
            /\ app'.status \in {"right", "wrong"}
      ]_vars

\* ------------------------------------------------------------------ C30
\* C30: isUserTurn is false in an active game only after a move of the user
\* was accepted; from every such state the game reaches a state where the
\* user is on turn again or the game has ended, whether the requests for
\* the computer's reply are answered or fail.
C30_NoStuckTurn ==
    (app.gameActive /\ ~app.isUserTurn) ~> (app.isUserTurn \/ ~app.gameActive)

\* ------------------------------------------------------------------ C29
\* C29: a request for the manifest made while the network can answer is
\* answered from the network, never from the worker's cache; a request for a
\* versioned data file is answered from the cache when the cache holds it
\* and from the network only when it does not.
C29_CachingRules ==
    /\ (sw.manifest.asked /\ sw.manifest.online) => sw.manifest.from = "network"
    /\ sw.data.asked => /\ sw.data.hit => sw.data.from = "cache"
                        /\ sw.data.from = "network" => ~sw.data.hit

====
